---- MODULE Spec2Model ----
(***************************************************************************)
(* WebRTPay: the connection session (WebRTCConnection), the orchestrator   *)
(* (ConnectionManager) and the message layer (MessageProtocol), as a state *)
(* machine.  The peer transport (RTCPeerConnection / RTCDataChannel) is    *)
(* the environment: its events and the outcome of every awaited transport  *)
(* call are nondeterministic inputs.                                       *)
(*                                                                         *)
(* A public operation that awaits the transport is one action per await    *)
(* point: call[p] holds the operation in flight and the await it is parked *)
(* at, and every other action of the session may interleave there.         *)
(***************************************************************************)
EXTENDS Integers, Sequences, FiniteSets, TLC

Peers == {1, 2}
Other(p) == 3 - p

\* Bounds of the model.
MaxGen == 2     \* peer connections one session object creates
MaxCand == 1    \* local candidates one peer connection discovers
MaxMsgs == 2    \* application messages one orchestrator is asked to send
MaxRecv == 2    \* frames of an arbitrary remote end a session acts on in Spec
MaxCap == 2     \* history caps setMaxHistorySize is called with: 0..MaxCap
MaxHandlers == 3  \* handlers registered on one MessageProtocol
MaxKept == 3    \* processMessage is called while the history is shorter
MaxConfigRetries == 2  \* config.maxRetries ranges over 0..MaxConfigRetries
MaxCut == 8     \* bytes cut off the end of an encoded token
MaxQueued == 3  \* messages queued on one MessageProtocol in SpecRetry
MaxScans == 6   \* calls of scanQRCodeFromVideo
MaxFlushCand == 2  \* local candidates one peer connection discovers in SpecFlush

\* Program constants.
ManagerMaxRetries == 3   \* ConnectionManager config.maxRetries default
FallbackMaxRetries == 3  \* handleConnectionFailure: config.maxRetries || 3
ProtocolMaxRetries == 3  \* MessageProtocol.maxRetries
MaxHistorySize == 100    \* MessageProtocol.maxHistorySize
AnswerCandidateCap == 3  \* iceCandidatesBuffer.slice(0, 3)

VARIABLES
  \* WebRTCConnection fields
  state,                 \* ConnectionState
  role,                  \* ConnectionRole or "null"
  trickleIceEnabled,
  peerConnection,        \* 0 = null, else the generation of the live RTCPeerConnection
  dataChannel,           \* "null", or the readyState of the RTCDataChannel the field holds
  iceCandidatesBuffer,
  pendingIceCandidates,
  eventListeners,        \* TRUE while the orchestrator's listeners are registered
  \* the transport behind peerConnection
  localDescription,
  remoteDescription,
  connectionState,
  gathered,              \* candidates the live peer connection has discovered
  gen,                   \* peer connections created so far
  sigApplied,            \* transport calls made by handleSignalingMessage on the live peer connection
  \* public operations in flight
  call,
  result,
  \* ConnectionManager and MessageProtocol fields
  messageHistory,
  messageQueue,
  retryCount,
  msgCount,              \* messages created by send() so far
  \* the data channel
  sentLog,               \* frames handed to the send of the channel dataChannel holds, in order
  delivered,             \* frames of the peer's sentLog already received
  routed,                \* the last frame received and where onmessage routed it
  emitted,               \* the transport state reported in this step, and the
                         \* events its handler emitted, in order
  \* what the two applications have passed each other out of band
  oob,
  \* the entry point the responder's call in flight came through
  entry,
  \* MessageProtocol: configuration, and what its last direct call did
  maxHistorySize,
  handlers,              \* the handlers registered for the message type and for '*'
  dispatched,            \* the processMessage of this step: outcome, handlers invoked
  attempts,              \* sendFn calls retryQueuedMessages has made, per message
  schemas,               \* MessageProtocol.schemas: type -> registered schema
  created,               \* the createMessage of this step: what it returned or threw
  config,                \* ConnectionManager.config: autoRetry, maxRetries
  \* QRBootstrap's codec: the token last given to compressToken, the bytes in
  \* hand (as produced, or altered on the way), what decompressToken made of them
  codecToken,
  wire,
  decoded,
  \* QRBootstrap.scanQRCodeFromVideo: the closure of the call in flight (its
  \* timer, createScanner, its scanner variable, its promise) and the scanners
  \* started and not stopped
  scan,
  \* waitForICEGathering: the peer connection the wait in flight was started
  \* on, its timer and listener, the calls of resolve, and the peer connection
  \* whose iceGatheringState is 'complete'
  wait

sessVars == <<state, role, trickleIceEnabled, peerConnection, dataChannel,
              iceCandidatesBuffer, pendingIceCandidates, eventListeners>>
tpVars == <<localDescription, remoteDescription, connectionState, gathered, gen,
            sigApplied>>
outVars == <<result, routed, emitted>>
mgrVars == <<messageHistory, messageQueue, retryCount, msgCount>>
wireVars == <<sentLog, delivered>>
schemaVars == <<schemas, created>>
protoVars == <<maxHistorySize, handlers, dispatched, attempts, schemaVars>>
codecVars == <<codecToken, wire, decoded>>
timers == <<scan, wait>>
vars == <<sessVars, tpVars, call, mgrVars, wireVars, outVars, oob, entry, protoVars,
          config, codecVars, timers>>

ConnectionStates == {"idle", "creating_offer", "awaiting_answer", "connecting",
                     "connected", "disconnected", "failed", "closed"}

----------------------------------------------------------------------------
(* Frames of the data-channel wire protocol, after JSON.parse.             *)
(* kind: "obj" a JSON object, "null" the JSON value null, "garbage" text   *)
(* JSON.parse rejects.  sig is the __signaling field, type the type field, *)
(* body the candidate (ice-candidate) or the message id (application).     *)

Frame(kind, sig, type, body) == [kind |-> kind, sig |-> sig, type |-> type, body |-> body]
AnswerEnvelope == Frame("obj", TRUE, "answer", 0)
IceEnvelope(c) == Frame("obj", TRUE, "ice-candidate", c)
AppMessage(id) == Frame("obj", FALSE, "payment_request", id)
\* a payment_request whose payload lacks a required field
BadMessage == Frame("obj", FALSE, "payment_request_missing_field", 0)
NullFrame == Frame("null", FALSE, "none", 0)
GarbageFrame == Frame("garbage", FALSE, "none", 0)

\* candidate n discovered by peer p's peer connection of generation g
Candidate(p, g, n) == p * 100 + g * 10 + n
CandidateGen(c) == (c % 100) \div 10

NoCall == [op |-> "none", at |-> "none", pc |-> 0,
           trickle |-> FALSE, cands |-> FALSE]
NoResult == [op |-> "none", out |-> "none", trickle |-> FALSE,
             cands |-> <<>>, why |-> "none"]
NoRoute == [frame |-> GarbageFrame, to |-> "none", layer |-> FALSE]
NoEmit == [event |-> "none", signals |-> <<>>]
NoHandlers == [specific |-> <<>>, wildcard |-> <<>>]
NoDispatch == [out |-> "none", msg |-> GarbageFrame, invoked |-> {}]
NoAttempts == [id \in 1..MaxQueued |-> [failed |-> 0, sent |-> 0]]
MessageTypes == {"payment_request", "ping"}
NoSchema == [set |-> FALSE, requiredFields |-> {}, validate |-> "none"]
NoPayload == [kind |-> "undefined", fields |-> {}, good |-> FALSE]
NoMessage == [out |-> "none", why |-> "none", type |-> "none", payload |-> NoPayload]
\* the configuration the ConnectionManager constructor completes {} to
DefaultConfig == [autoRetry |-> TRUE, maxRetries |-> ManagerMaxRetries]
\* a byte string is a sequence of runs: n times the byte b, n >= 1, adjacent
\* runs of different bytes
Run(b, n) == IF n = 0 THEN <<>> ELSE <<[b |-> b, n |-> n]>>
NoCodecToken ==
  [type |-> "none", sdp |-> <<>>, iceCandidates |-> <<>>, timestamp |-> 0,
   connectionId |-> <<>>, trickleIce |-> FALSE, custom |-> {}]
NoBytes == [out |-> "none", bytes |-> <<>>, cut |-> 0]
NotDecoded == [out |-> "none", token |-> NoCodecToken]
NoScan == [calls |-> 0, timer |-> "none", creating |-> "none", scanner |-> "null",
           running |-> FALSE, orphans |-> 0, outcome |-> "none"]
NoWait == [pc |-> 0, timer |-> "none", listener |-> FALSE, resolves |-> 0,
           complete |-> 0]
NoHandover == [token |-> [set |-> FALSE, trickle |-> FALSE, cands |-> FALSE],
               answer |-> [set |-> FALSE, cands |-> FALSE]]

\* the state after new ConnectionManager(cfg)
InitWith(cfg) ==
  /\ state = [p \in Peers |-> "idle"]
  /\ role = [p \in Peers |-> "null"]
  /\ trickleIceEnabled = [p \in Peers |-> FALSE]
  /\ peerConnection = [p \in Peers |-> 0]
  /\ dataChannel = [p \in Peers |-> "null"]
  /\ iceCandidatesBuffer = [p \in Peers |-> <<>>]
  /\ pendingIceCandidates = [p \in Peers |-> <<>>]
  /\ eventListeners = [p \in Peers |-> TRUE]
  /\ localDescription = [p \in Peers |-> "none"]
  /\ remoteDescription = [p \in Peers |-> "none"]
  /\ connectionState = [p \in Peers |-> "new"]
  /\ gathered = [p \in Peers |-> 0]
  /\ gen = [p \in Peers |-> 0]
  /\ sigApplied = [p \in Peers |-> [srd |-> 0, ice |-> 0]]
  /\ call = [p \in Peers |-> NoCall]
  /\ result = [p \in Peers |-> NoResult]
  /\ messageHistory = [p \in Peers |-> <<>>]
  /\ messageQueue = [p \in Peers |-> <<>>]
  /\ retryCount = [p \in Peers |-> 0]
  /\ msgCount = [p \in Peers |-> 0]
  /\ sentLog = [p \in Peers |-> <<>>]
  /\ delivered = [p \in Peers |-> 0]
  /\ routed = [p \in Peers |-> NoRoute]
  /\ emitted = [p \in Peers |-> NoEmit]
  /\ oob = NoHandover
  /\ entry = [p \in Peers |-> "session"]
  /\ maxHistorySize = [p \in Peers |-> MaxHistorySize]
  /\ handlers = [p \in Peers |-> NoHandlers]
  /\ dispatched = [p \in Peers |-> NoDispatch]
  /\ attempts = [p \in Peers |-> NoAttempts]
  /\ schemas = [p \in Peers |-> [t \in MessageTypes |-> NoSchema]]
  /\ created = [p \in Peers |-> NoMessage]
  /\ config = [p \in Peers |-> cfg]
  /\ codecToken = NoCodecToken
  /\ wire = NoBytes
  /\ decoded = NotDecoded
  /\ scan = NoScan
  /\ wait = [p \in Peers |-> NoWait]

Init == InitWith(DefaultConfig)

----------------------------------------------------------------------------
(* What a step hands back: result is what the public call that returned in *)
(* this step returned or threw, routed where onmessage routed the frame    *)
(* that arrived in this step.                                              *)

Returns(p, r) == result' = [q \in Peers |-> IF q = p THEN r ELSE NoResult]
NoReturn == result' = [q \in Peers |-> NoResult]
Routes(p, r) == routed' = [q \in Peers |-> IF q = p THEN r ELSE NoRoute]
NothingRouted == routed' = [q \in Peers |-> NoRoute]
Emits(p, e) == emitted' = [q \in Peers |-> IF q = p THEN e ELSE NoEmit]
NothingEmitted == emitted' = [q \in Peers |-> NoEmit]

----------------------------------------------------------------------------
(* WebRTCConnection helpers                                                *)

\* handleConnectionFailure, up to its first await: the orchestrator's
\* STATE_CHANGE listener counts a retry when the new state is FAILED.
HandleConnectionFailure(p) ==
  IF retryCount[p] >= (IF config[p].maxRetries = 0
                         THEN FallbackMaxRetries ELSE config[p].maxRetries)
    THEN retryCount
    ELSE [retryCount EXCEPT ![p] = @ + 1]

\* setState: assigns and emits STATE_CHANGE only when the state changes.
SetState(p, newState) ==
  /\ state' = [state EXCEPT ![p] = newState]
  /\ retryCount' = IF /\ state[p] # newState /\ newState = "failed"
                        /\ eventListeners[p] /\ config[p].autoRetry
                     THEN HandleConnectionFailure(p)
                     ELSE retryCount

\* initializePeerConnection: closes the peer connection the session holds and
\* creates a fresh one.  The data channel of the closed one is closed with it.
InitializePeerConnection(p) ==
  /\ peerConnection' = [peerConnection EXCEPT ![p] = gen[p] + 1]
  /\ gen' = [gen EXCEPT ![p] = @ + 1]
  /\ localDescription' = [localDescription EXCEPT ![p] = "none"]
  /\ remoteDescription' = [remoteDescription EXCEPT ![p] = "none"]
  /\ connectionState' = [connectionState EXCEPT ![p] = "new"]
  /\ gathered' = [gathered EXCEPT ![p] = 0]
  /\ sigApplied' = [sigApplied EXCEPT ![p] = [srd |-> 0, ice |-> 0]]

\* The peer connection an operation in flight holds is still the live one:
\* a transport call on a closed peer connection rejects.
Alive(p) ==
  /\ peerConnection[p] # 0
  /\ peerConnection[p] = call[p].pc
  /\ connectionState[p] # "closed"

Outcomes(p) == IF Alive(p) THEN {TRUE, FALSE} ELSE {FALSE}

\* The catch block of a public operation: setState(FAILED) and throw.
Fail(p) ==
  /\ SetState(p, "failed")
  /\ Returns(p, [NoResult EXCEPT !.op = call[p].op, !.out = "error"])
  /\ call' = [call EXCEPT ![p] = NoCall]

----------------------------------------------------------------------------
(* createBootstrapToken (begin-as-initiator)                               *)

\* up to `await pc.createOffer()`
CreateBegin(p, useTrickleICE) ==
  /\ call[p].op = "none"
  /\ gen[p] < MaxGen
  /\ role' = [role EXCEPT ![p] = "offerer"]
  /\ trickleIceEnabled' = [trickleIceEnabled EXCEPT ![p] = useTrickleICE]
  /\ SetState(p, "creating_offer")
  /\ InitializePeerConnection(p)
  /\ dataChannel' = [dataChannel EXCEPT ![p] = "connecting"]
  /\ call' = [call EXCEPT ![p] = [op |-> "create", at |-> "createOffer",
                                   pc |-> gen[p] + 1,
                                   trickle |-> useTrickleICE, cands |-> FALSE]]
  /\ sentLog' = [sentLog EXCEPT ![p] = <<>>]
  /\ UNCHANGED <<iceCandidatesBuffer, pendingIceCandidates, eventListeners,
                 messageHistory, messageQueue, msgCount, delivered>>
  /\ NoReturn
  /\ NothingRouted
  /\ NothingEmitted
  /\ UNCHANGED <<oob, entry, protoVars, config, codecVars, timers>>

\* createOffer settles; on success `await pc.setLocalDescription(offer)`
CreateOffered(p, ok) ==
  /\ call[p].op = "create" /\ call[p].at = "createOffer"
  /\ ok \in Outcomes(p)
  /\ IF ok
       THEN /\ call' = [call EXCEPT ![p].at = "setLocalDescription"]
            /\ UNCHANGED <<state, retryCount>>
            /\ NoReturn
       ELSE Fail(p)
  /\ UNCHANGED <<role, trickleIceEnabled, peerConnection, dataChannel,
                 iceCandidatesBuffer, pendingIceCandidates, eventListeners,
                 tpVars, messageHistory, messageQueue, msgCount, sentLog, delivered>>
  /\ NothingRouted
  /\ NothingEmitted
  /\ UNCHANGED <<oob, entry, protoVars, config, codecVars, timers>>

\* the token createBootstrapToken returns
Token(p, useTrickleICE) ==
  [NoResult EXCEPT !.op = "create", !.out = "token",
                   !.trickle = useTrickleICE,
                   !.cands = IF useTrickleICE THEN <<>> ELSE iceCandidatesBuffer[p]]

\* setLocalDescription settles; in trickle mode the token is returned at once,
\* otherwise waitForICEGathering is awaited
CreateLocalSet(p, ok) ==
  /\ call[p].op = "create" /\ call[p].at = "setLocalDescription"
  /\ ok \in Outcomes(p)
  /\ IF ok
       THEN /\ localDescription' = [localDescription EXCEPT ![p] = "offer"]
            /\ IF call[p].trickle
                 THEN /\ SetState(p, "awaiting_answer")
                      /\ Returns(p, Token(p, TRUE))
                      /\ call' = [call EXCEPT ![p] = NoCall]
                 ELSE /\ call' = [call EXCEPT ![p].at = "waitForICEGathering"]
                      /\ UNCHANGED <<state, retryCount>>
                      /\ NoReturn
       ELSE /\ Fail(p)
            /\ UNCHANGED localDescription
  /\ UNCHANGED <<role, trickleIceEnabled, peerConnection, dataChannel,
                 iceCandidatesBuffer, pendingIceCandidates, eventListeners,
                 remoteDescription, connectionState, gathered, gen,
                 sigApplied, messageHistory, messageQueue, msgCount, sentLog, delivered>>
  /\ NothingRouted
  /\ NothingEmitted
  /\ UNCHANGED <<oob, entry, protoVars, config, codecVars, timers>>

\* CreateGathered without its setState(AWAITING_ANSWER)
CreateGatheredStateNotSet(p) ==
  /\ call[p].op = "create" /\ call[p].at = "waitForICEGathering"
  /\ Returns(p, Token(p, FALSE))
  /\ call' = [call EXCEPT ![p] = NoCall]
  /\ UNCHANGED <<sessVars, tpVars, mgrVars, sentLog, delivered>>
  /\ NothingRouted
  /\ NothingEmitted
  /\ UNCHANGED <<oob, entry, protoVars, config, codecVars, timers>>

\* waitForICEGathering resolves (gathering complete, or the 5 s timer): it never
\* rejects, also not on a closed peer connection
CreateGathered(p) ==
  /\ call[p].op = "create" /\ call[p].at = "waitForICEGathering"
  /\ SetState(p, "awaiting_answer")
  /\ Returns(p, Token(p, FALSE))
  /\ call' = [call EXCEPT ![p] = NoCall]
  /\ UNCHANGED <<role, trickleIceEnabled, peerConnection, dataChannel,
                 iceCandidatesBuffer, pendingIceCandidates, eventListeners,
                 tpVars, messageHistory, messageQueue, msgCount, sentLog, delivered>>
  /\ NothingRouted
  /\ NothingEmitted
  /\ UNCHANGED <<oob, entry, protoVars, config, codecVars, timers>>

----------------------------------------------------------------------------
(* connectWithBootstrapToken (begin-as-responder)                          *)

\* The token handed in: its trickle flag, and whether it embeds candidates.
Tokens == [trickle : BOOLEAN, cands : BOOLEAN]

\* up to `await pc.setRemoteDescription(token.offer)`.  No data channel is
\* created here: the field keeps the channel of the closed peer connection.
\* The caller (the application, joinQRConnection, joinRemoteConnection) sets
\* entry.
ConnectBegin(p, token) ==
  /\ call[p].op = "none"
  /\ gen[p] < MaxGen
  /\ role' = [role EXCEPT ![p] = "answerer"]
  /\ trickleIceEnabled' = [trickleIceEnabled EXCEPT ![p] = token.trickle]
  /\ SetState(p, "connecting")
  /\ iceCandidatesBuffer' = [iceCandidatesBuffer EXCEPT ![p] = <<>>]
  /\ InitializePeerConnection(p)
  /\ dataChannel' = [dataChannel EXCEPT ![p] = IF @ = "null" THEN "null" ELSE "closed"]
  /\ call' = [call EXCEPT ![p] = [op |-> "connect", at |-> "setRemoteDescription",
                                   pc |-> gen[p] + 1,
                                   trickle |-> token.trickle, cands |-> token.cands]]
  /\ sentLog' = [sentLog EXCEPT ![p] = <<>>]
  /\ UNCHANGED <<pendingIceCandidates, eventListeners,
                 messageHistory, messageQueue, msgCount, delivered>>
  /\ NoReturn
  /\ NothingRouted
  /\ NothingEmitted
  /\ UNCHANGED <<oob, protoVars, config, codecVars, timers>>

\* setRemoteDescription settles; then the token's candidates are added, if any,
\* else `await pc.createAnswer()`
ConnectRemoteSet(p, ok) ==
  /\ call[p].op = "connect" /\ call[p].at = "setRemoteDescription"
  /\ ok \in Outcomes(p)
  /\ IF ok
       THEN /\ remoteDescription' = [remoteDescription EXCEPT ![p] = "offer"]
            /\ call' = [call EXCEPT ![p].at = IF call[p].cands THEN "addIceCandidate"
                                                ELSE "createAnswer"]
            /\ UNCHANGED <<state, retryCount>>
            /\ NoReturn
       ELSE /\ Fail(p)
            /\ UNCHANGED remoteDescription
  /\ UNCHANGED <<role, trickleIceEnabled, peerConnection, dataChannel,
                 iceCandidatesBuffer, pendingIceCandidates, eventListeners,
                 localDescription, connectionState, gathered, gen, sigApplied,
                 messageHistory, messageQueue, msgCount, sentLog, delivered>>
  /\ NothingRouted
  /\ NothingEmitted
  /\ UNCHANGED <<oob, entry, protoVars, config, codecVars, timers>>

\* the loop of `await pc.addIceCandidate(c)` settles (the session's fields do
\* not change between its iterations); then `await pc.createAnswer()`
ConnectCandidatesAdded(p, ok) ==
  /\ call[p].op = "connect" /\ call[p].at = "addIceCandidate"
  /\ ok \in Outcomes(p)
  /\ IF ok
       THEN /\ call' = [call EXCEPT ![p].at = "createAnswer"]
            /\ UNCHANGED <<state, retryCount>>
            /\ NoReturn
       ELSE Fail(p)
  /\ UNCHANGED <<role, trickleIceEnabled, peerConnection, dataChannel,
                 iceCandidatesBuffer, pendingIceCandidates, eventListeners,
                 tpVars, messageHistory, messageQueue, msgCount, sentLog, delivered>>
  /\ NothingRouted
  /\ NothingEmitted
  /\ UNCHANGED <<oob, entry, protoVars, config, codecVars, timers>>

\* createAnswer settles; on success `await pc.setLocalDescription(answer)`
ConnectAnswered(p, ok) ==
  /\ call[p].op = "connect" /\ call[p].at = "createAnswer"
  /\ ok \in Outcomes(p)
  /\ IF ok
       THEN /\ call' = [call EXCEPT ![p].at = "setLocalDescription"]
            /\ UNCHANGED <<state, retryCount>>
            /\ NoReturn
       ELSE Fail(p)
  /\ UNCHANGED <<role, trickleIceEnabled, peerConnection, dataChannel,
                 iceCandidatesBuffer, pendingIceCandidates, eventListeners,
                 tpVars, messageHistory, messageQueue, msgCount, sentLog, delivered>>
  /\ NothingRouted
  /\ NothingEmitted
  /\ UNCHANGED <<oob, entry, protoVars, config, codecVars, timers>>

\* setLocalDescription settles; a trickle token returns null at once, else
\* waitForICEGathering is awaited
ConnectLocalSet(p, ok) ==
  /\ call[p].op = "connect" /\ call[p].at = "setLocalDescription"
  /\ ok \in Outcomes(p)
  /\ IF ok
       THEN /\ localDescription' = [localDescription EXCEPT ![p] = "answer"]
            /\ IF call[p].trickle
                 THEN /\ Returns(p, [NoResult EXCEPT !.op = "connect", !.out = "null",
                                                       !.trickle = TRUE])
                      /\ call' = [call EXCEPT ![p] = NoCall]
                 ELSE /\ call' = [call EXCEPT ![p].at = "waitForICEGathering"]
                      /\ NoReturn
            /\ UNCHANGED <<state, retryCount>>
       ELSE /\ Fail(p)
            /\ UNCHANGED localDescription
  /\ UNCHANGED <<role, trickleIceEnabled, peerConnection, dataChannel,
                 iceCandidatesBuffer, pendingIceCandidates, eventListeners,
                 remoteDescription, connectionState, gathered, gen, sigApplied,
                 messageHistory, messageQueue, msgCount, sentLog, delivered>>
  /\ NothingRouted
  /\ NothingEmitted
  /\ UNCHANGED <<oob, entry, protoVars, config, codecVars, timers>>

\* s.slice(0, n)
Slice(s, n) == SubSeq(s, 1, IF Len(s) < n THEN Len(s) ELSE n)

\* waitForICEGathering resolves: the answer and at most three candidates return
ConnectGathered(p) ==
  /\ call[p].op = "connect" /\ call[p].at = "waitForICEGathering"
  /\ Returns(p, [NoResult EXCEPT !.op = "connect", !.out = "answer",
                     !.cands = Slice(iceCandidatesBuffer[p], AnswerCandidateCap)])
  /\ call' = [call EXCEPT ![p] = NoCall]
  /\ UNCHANGED <<sessVars, tpVars, mgrVars, sentLog, delivered>>
  /\ NothingRouted
  /\ NothingEmitted
  /\ UNCHANGED <<oob, entry, protoVars, config, codecVars, timers>>

----------------------------------------------------------------------------
(* receiveAnswer (complete-as-initiator)                                   *)

\* the C26 mutant: receiveAnswer without its role guard
ReceiveBeginAnyRole(p, hasCandidates) ==
  /\ call[p].op = "none"
  /\ IF peerConnection[p] = 0
       THEN /\ Returns(p, [NoResult EXCEPT !.op = "receive", !.out = "rejected"])
            /\ UNCHANGED call
       ELSE /\ call' = [call EXCEPT ![p] =
                 [op |-> "receive", at |-> "setRemoteDescription",
                  pc |-> peerConnection[p], trickle |-> FALSE,
                  cands |-> hasCandidates]]
            /\ NoReturn
  /\ UNCHANGED <<sessVars, tpVars, mgrVars, sentLog, delivered>>
  /\ NothingRouted
  /\ NothingEmitted
  /\ UNCHANGED <<oob, entry, protoVars, config, codecVars, timers>>

\* the two guards, then `await this.peerConnection.setRemoteDescription(answer)`
ReceiveBegin(p, hasCandidates) ==
  /\ call[p].op = "none"
  /\ IF role[p] # "offerer" \/ peerConnection[p] = 0
       THEN /\ Returns(p, [NoResult EXCEPT !.op = "receive", !.out = "rejected"])
            /\ UNCHANGED call
       ELSE /\ call' = [call EXCEPT ![p] =
                 [op |-> "receive", at |-> "setRemoteDescription",
                  pc |-> peerConnection[p], trickle |-> FALSE,
                  cands |-> hasCandidates]]
            /\ NoReturn
  /\ UNCHANGED <<sessVars, tpVars, mgrVars, sentLog, delivered>>
  /\ NothingRouted
  /\ NothingEmitted
  /\ UNCHANGED <<oob, entry, protoVars, config, codecVars, timers>>

ReceiveDone(p) ==
  /\ SetState(p, "connecting")
  /\ Returns(p, [NoResult EXCEPT !.op = "receive", !.out = "ok"])
  /\ call' = [call EXCEPT ![p] = NoCall]

\* setRemoteDescription settles; then the answerer's candidates are added, if
\* any, else the state is set to CONNECTING
ReceiveRemoteSet(p, ok) ==
  /\ call[p].op = "receive" /\ call[p].at = "setRemoteDescription"
  /\ ok \in Outcomes(p)
  /\ IF ok
       THEN /\ remoteDescription' = [remoteDescription EXCEPT ![p] = "answer"]
            /\ IF call[p].cands
                 THEN /\ call' = [call EXCEPT ![p].at = "addIceCandidate"]
                      /\ UNCHANGED <<state, retryCount>>
                      /\ NoReturn
                 ELSE ReceiveDone(p)
       ELSE /\ Fail(p)
            /\ UNCHANGED remoteDescription
  /\ UNCHANGED <<role, trickleIceEnabled, peerConnection, dataChannel,
                 iceCandidatesBuffer, pendingIceCandidates, eventListeners,
                 localDescription, connectionState, gathered, gen, sigApplied,
                 messageHistory, messageQueue, msgCount, sentLog, delivered>>
  /\ NothingRouted
  /\ NothingEmitted
  /\ UNCHANGED <<oob, entry, protoVars, config, codecVars, timers>>

\* the loop of `await this.peerConnection.addIceCandidate(c)` settles
ReceiveCandidatesAdded(p, ok) ==
  /\ call[p].op = "receive" /\ call[p].at = "addIceCandidate"
  /\ ok \in Outcomes(p)
  /\ IF ok THEN ReceiveDone(p) ELSE Fail(p)
  /\ UNCHANGED <<role, trickleIceEnabled, peerConnection, dataChannel,
                 iceCandidatesBuffer, pendingIceCandidates, eventListeners,
                 tpVars, messageHistory, messageQueue, msgCount, sentLog, delivered>>
  /\ NothingRouted
  /\ NothingEmitted
  /\ UNCHANGED <<oob, entry, protoVars, config, codecVars, timers>>

----------------------------------------------------------------------------
(* close                                                                    *)

\* ConnectionManager.close: WebRTCConnection.close, then the message layer's
\* history and queue are cleared and the retry count reset.  An operation in
\* flight is not cancelled: it resumes on the closed peer connection.
\* what close hands back: it returns, having emitted the STATE_CHANGE event
\* to the listeners (emitted "STATE_CHANGE") or no event (emitted "none")
CloseReturn(event) ==
  [op |-> "close", out |-> "ok", trickle |-> FALSE, cands |-> <<>>, why |-> event]

\* the C22 mutant: close without its null guards, throwing on a session that
\* has neither data channel nor peer connection
CloseUnguarded(p) ==
  /\ dataChannel' = [dataChannel EXCEPT ![p] = "null"]
  /\ peerConnection' = [peerConnection EXCEPT ![p] = 0]
  /\ state' = [state EXCEPT ![p] = "closed"]
  /\ eventListeners' = [eventListeners EXCEPT ![p] = FALSE]
  /\ iceCandidatesBuffer' = [iceCandidatesBuffer EXCEPT ![p] = <<>>]
  /\ messageHistory' = [messageHistory EXCEPT ![p] = <<>>]
  /\ messageQueue' = [messageQueue EXCEPT ![p] = <<>>]
  /\ retryCount' = [retryCount EXCEPT ![p] = 0]
  \* the transport is destroyed with the peer connection
  /\ localDescription' = [localDescription EXCEPT ![p] = "none"]
  /\ remoteDescription' = [remoteDescription EXCEPT ![p] = "none"]
  /\ connectionState' = [connectionState EXCEPT ![p] = "new"]
  /\ gathered' = [gathered EXCEPT ![p] = 0]
  /\ sigApplied' = [sigApplied EXCEPT ![p] = [srd |-> 0, ice |-> 0]]
  /\ UNCHANGED <<role, trickleIceEnabled, pendingIceCandidates, gen, call,
                 msgCount, delivered>>
  /\ sentLog' = [sentLog EXCEPT ![p] = <<>>]
  /\ Returns(p, IF dataChannel[p] = "null" /\ peerConnection[p] = 0
                   THEN [CloseReturn("none") EXCEPT !.out = "error"]
                   ELSE CloseReturn(IF state[p] # "closed" /\ eventListeners[p]
                                      THEN "STATE_CHANGE" ELSE "none"))
  /\ NothingRouted
  /\ NothingEmitted
  /\ UNCHANGED <<oob, entry, protoVars, config, codecVars, timers>>


Close(p) ==
  /\ dataChannel' = [dataChannel EXCEPT ![p] = "null"]
  /\ peerConnection' = [peerConnection EXCEPT ![p] = 0]
  /\ state' = [state EXCEPT ![p] = "closed"]
  /\ eventListeners' = [eventListeners EXCEPT ![p] = FALSE]
  /\ iceCandidatesBuffer' = [iceCandidatesBuffer EXCEPT ![p] = <<>>]
  /\ messageHistory' = [messageHistory EXCEPT ![p] = <<>>]
  /\ messageQueue' = [messageQueue EXCEPT ![p] = <<>>]
  /\ retryCount' = [retryCount EXCEPT ![p] = 0]
  \* the transport is destroyed with the peer connection
  /\ localDescription' = [localDescription EXCEPT ![p] = "none"]
  /\ remoteDescription' = [remoteDescription EXCEPT ![p] = "none"]
  /\ connectionState' = [connectionState EXCEPT ![p] = "new"]
  /\ gathered' = [gathered EXCEPT ![p] = 0]
  /\ sigApplied' = [sigApplied EXCEPT ![p] = [srd |-> 0, ice |-> 0]]
  /\ UNCHANGED <<role, trickleIceEnabled, pendingIceCandidates, gen, call,
                 msgCount, delivered>>
  /\ sentLog' = [sentLog EXCEPT ![p] = <<>>]
  /\ Returns(p, CloseReturn(IF state[p] # "closed" /\ eventListeners[p]
                              THEN "STATE_CHANGE" ELSE "none"))
  /\ NothingRouted
  /\ NothingEmitted
  /\ UNCHANGED <<oob, entry, protoVars, config, codecVars, timers>>

----------------------------------------------------------------------------
(* MessageProtocol and ConnectionManager.sendMessage                       *)

IsOpen(p) == dataChannel[p] \in {"announced", "open"}

\* WebRTCConnection.isReady
IsReady(p) == state[p] = "connected" /\ dataChannel[p] # "null" /\ IsOpen(p)

\* validateMessage against the schemas of registerCommonSchemas
ValidMessage(m) == m.type # "payment_request_missing_field"

\* h.slice(-n) for n >= 0: the last n entries; -0 is 0, so slice(-0) is all of h
SliceLast(h, n) ==
  IF n = 0 \/ n >= Len(h) THEN h ELSE SubSeq(h, Len(h) - n + 1, Len(h))

\* addToHistory: push, then slice(-maxHistorySize) when longer than the cap
AddToHistory(h, m, cap) ==
  LET pushed == Append(h, m)
  IN IF Len(pushed) > cap THEN SliceLast(pushed, cap) ELSE pushed

\* ProcessMessage without its validateMessage
ProcessMessageUnvalidated(h, m, cap) == AddToHistory(h, m, cap)

\* processMessage, up to the dispatch to handlers: the history after it
ProcessMessage(h, m, cap) == IF ValidMessage(m) THEN AddToHistory(h, m, cap) ELSE h

\* queueMessage
QueueMessage(q, m) == Append(q, [message |-> m, retries |-> 0])

\* retryQueuedMessages with ConnectionManager.sendMessage as sendFn, from entry
\* i of the drained queue on: the queue rebuilt and the frames sent.  A send
\* that fails (session not ready, or dataChannel.send throws: i \in failing)
\* is queued by sendMessage and queued again by the catch of the retry loop.
RECURSIVE RetryQueuedMessages(_, _, _, _)
RetryQueuedMessages(toRetry, i, ready, failing) ==
  IF i > Len(toRetry)
    THEN [queue |-> <<>>, sent |-> <<>>]
    ELSE LET queued == toRetry[i]
             rest == RetryQueuedMessages(toRetry, i + 1, ready, failing)
         IN IF queued.retries >= ProtocolMaxRetries
              THEN rest
              ELSE IF ready /\ i \notin failing
                     THEN [queue |-> rest.queue,
                           sent |-> <<queued.message>> \o rest.sent]
                     ELSE [queue |-> <<[message |-> queued.message, retries |-> 0],
                                       [message |-> queued.message,
                                        retries |-> queued.retries + 1]>>
                                     \o rest.queue,
                           sent |-> rest.sent]

\* the first entry of the drained queue that is not dropped is sent before
\* retryQueuedMessages first awaits, the others in later microtasks
SentBeforeFirstAwait(toRetry, ready, failing) ==
  LET live == {i \in 1..Len(toRetry) : toRetry[i].retries < ProtocolMaxRetries}
  IN /\ ready
     /\ live # {}
     /\ (CHOOSE i \in live : \A j \in live : i <= j) \notin failing

\* what sendMessage hands back: it resolves, or throws MESSAGE_SEND_FAILED
SendReturn(out, why) ==
  [op |-> "send", out |-> out, trickle |-> FALSE, cands |-> <<>>, why |-> why]

\* the C20 mutant: sendMessage rethrowing a failed send without queueing it
SendDropsOnFailure(p, sendOk) ==
  /\ msgCount[p] < MaxMsgs
  /\ msgCount' = [msgCount EXCEPT ![p] = @ + 1]
  /\ LET m == AppMessage(10 * p + msgCount[p] + 1)
     IN IF ~IsReady(p)
          THEN /\ messageQueue' = [messageQueue EXCEPT ![p] = QueueMessage(@, m)]
               /\ UNCHANGED sentLog
               /\ Returns(p, SendReturn("error", "Connection not ready, message queued"))
          ELSE IF sendOk
                 THEN /\ sentLog' = [sentLog EXCEPT ![p] = Append(@, m)]
                      /\ UNCHANGED messageQueue
                      /\ Returns(p, SendReturn("ok", "none"))
                 ELSE /\ UNCHANGED <<messageQueue, sentLog>>
                      /\ Returns(p, SendReturn("error", "Failed to send message"))
  /\ UNCHANGED <<sessVars, tpVars, call, messageHistory, retryCount, delivered>>
  /\ NothingRouted
  /\ NothingEmitted
  /\ UNCHANGED <<oob, entry, protoVars, config, codecVars, timers>>

\* ConnectionManager.send: createMessage, then sendMessage.  A message sent to
\* a session that is not ready, or whose dataChannel.send throws, is queued,
\* and the call throws.
Send(p, sendOk) ==
  /\ msgCount[p] < MaxMsgs
  /\ msgCount' = [msgCount EXCEPT ![p] = @ + 1]
  /\ LET m == AppMessage(10 * p + msgCount[p] + 1)
     IN IF ~IsReady(p)
          THEN /\ messageQueue' = [messageQueue EXCEPT ![p] = QueueMessage(@, m)]
               /\ UNCHANGED sentLog
               /\ Returns(p, SendReturn("error", "Connection not ready, message queued"))
          ELSE IF sendOk
                 THEN /\ sentLog' = [sentLog EXCEPT ![p] = Append(@, m)]
                      /\ UNCHANGED messageQueue
                      /\ Returns(p, SendReturn("ok", "none"))
                 ELSE /\ messageQueue' =
                           [messageQueue EXCEPT ![p] = QueueMessage(@, m)]
                      /\ UNCHANGED sentLog
                      /\ Returns(p, SendReturn("error", "Failed to send message"))
  /\ UNCHANGED <<sessVars, tpVars, call, messageHistory, retryCount, delivered>>
  /\ NothingRouted
  /\ NothingEmitted
  /\ UNCHANGED <<oob, entry, protoVars, config, codecVars, timers>>

----------------------------------------------------------------------------
(* Transport events                                                        *)

\* pc.onicecandidate with a candidate, on a peer connection that has
\* discovered fewer than limit candidates
Discover(p, limit) ==
  /\ peerConnection[p] # 0
  /\ connectionState[p] # "closed"
  /\ localDescription[p] # "none"
  /\ gathered[p] < limit
  /\ LET c == Candidate(p, peerConnection[p], gathered[p] + 1)
     IN /\ gathered' = [gathered EXCEPT ![p] = @ + 1]
        /\ iceCandidatesBuffer' = [iceCandidatesBuffer EXCEPT ![p] = Append(@, c)]
        /\ IF trickleIceEnabled[p] /\ dataChannel[p] # "null" /\ IsOpen(p)
             THEN /\ sentLog' = [sentLog EXCEPT ![p] = Append(@, IceEnvelope(c))]
                  /\ UNCHANGED pendingIceCandidates
             ELSE IF trickleIceEnabled[p]
               THEN /\ pendingIceCandidates' =
                         [pendingIceCandidates EXCEPT ![p] = Append(@, c)]
                    /\ UNCHANGED sentLog
               ELSE UNCHANGED <<pendingIceCandidates, sentLog>>
  /\ UNCHANGED <<state, role, trickleIceEnabled, peerConnection, dataChannel,
                 eventListeners, localDescription, remoteDescription,
                 connectionState, gen, sigApplied, call, mgrVars, delivered>>
  /\ NoReturn
  /\ NothingRouted
  /\ NothingEmitted
  /\ UNCHANGED <<oob, entry, protoVars, config, codecVars, timers>>

IceCandidate(p) == Discover(p, MaxCand)

\* The connection states the transport can move to.  "connecting" has no case
\* in the handler and is folded into "new".
TransportCanReport(p, s) ==
  LET negotiated == localDescription[p] # "none" /\ remoteDescription[p] # "none"
  IN CASE s = "connected" -> negotiated /\ connectionState[p] \in {"new", "disconnected"}
       [] s = "disconnected" -> connectionState[p] = "connected"
       [] s = "failed" -> negotiated /\ connectionState[p] \in {"new", "disconnected"}
       [] s = "closed" -> connectionState[p] # "closed"

\* the emit calls of the onconnectionstatechange handler, in order: setState
\* emits STATE_CHANGE when the state changes, the failed case then emits ERROR
StateChangeSignals(p, s) ==
  (IF state[p] # s THEN <<"STATE_CHANGE">> ELSE <<>>)
    \o (IF s = "failed" THEN <<"ERROR">> ELSE <<>>)

\* OnConnectionStateChange whose failed case emits no ERROR
OnConnectionStateChangeQuietFailure(p, s) ==
  /\ peerConnection[p] # 0
  /\ TransportCanReport(p, s)
  /\ connectionState' = [connectionState EXCEPT ![p] = s]
  /\ SetState(p, s)
  /\ UNCHANGED <<role, trickleIceEnabled, peerConnection, dataChannel,
                 iceCandidatesBuffer, pendingIceCandidates, eventListeners,
                 localDescription, remoteDescription, gathered, gen, sigApplied,
                 call, messageHistory, messageQueue, msgCount, sentLog, delivered>>
  /\ NoReturn
  /\ NothingRouted
  /\ Emits(p, [event |-> s,
               signals |-> IF state[p] # s THEN <<"STATE_CHANGE">> ELSE <<>>])
  /\ UNCHANGED <<oob, entry, protoVars, config, codecVars, timers>>

\* pc.onconnectionstatechange
OnConnectionStateChange(p, s) ==
  /\ peerConnection[p] # 0
  /\ TransportCanReport(p, s)
  /\ connectionState' = [connectionState EXCEPT ![p] = s]
  /\ CASE s = "connected" -> SetState(p, "connected")
       [] s = "disconnected" -> SetState(p, "disconnected")
       [] s = "failed" -> SetState(p, "failed")
       [] s = "closed" -> SetState(p, "closed")
  /\ UNCHANGED <<role, trickleIceEnabled, peerConnection, dataChannel,
                 iceCandidatesBuffer, pendingIceCandidates, eventListeners,
                 localDescription, remoteDescription, gathered, gen, sigApplied,
                 call, messageHistory, messageQueue, msgCount, sentLog, delivered>>
  /\ NoReturn
  /\ NothingRouted
  /\ Emits(p, [event |-> s, signals |-> StateChangeSignals(p, s)])
  /\ UNCHANGED <<oob, entry, protoVars, config, codecVars, timers>>

\* pc.ondatachannel: setupDataChannel(event.channel).  The channel the remote
\* end opened is announced with readyState "open", its open event follows.
OnDataChannel(p) ==
  /\ peerConnection[p] # 0
  /\ connectionState[p] # "closed"
  /\ remoteDescription[p] # "none"
  /\ dataChannel[p] \in {"null", "closed"}
  /\ dataChannel' = [dataChannel EXCEPT ![p] = "announced"]
  /\ UNCHANGED <<state, role, trickleIceEnabled, peerConnection,
                 iceCandidatesBuffer, pendingIceCandidates, eventListeners, tpVars,
                 call, mgrVars, delivered>>
  /\ sentLog' = [sentLog EXCEPT ![p] = <<>>]
  /\ NoReturn
  /\ NothingRouted
  /\ NothingEmitted
  /\ UNCHANGED <<oob, entry, protoVars, config, codecVars, timers>>

\* AnswerFlush that sends the pending candidates but not the answer
AnswerFlushWithoutAnswer(p) ==
  IF peerConnection[p] = 0 \/ localDescription[p] = "none"
    THEN <<>>
    ELSE [i \in 1..Len(pendingIceCandidates[p]) |->
            IceEnvelope(pendingIceCandidates[p][i])]

\* sendAnswerThroughDataChannel: the answer envelope, then the pending candidates
AnswerFlush(p) ==
  IF peerConnection[p] = 0 \/ localDescription[p] = "none"
    THEN <<>>
    ELSE <<AnswerEnvelope>>
         \o [i \in 1..Len(pendingIceCandidates[p]) |->
               IceEnvelope(pendingIceCandidates[p][i])]

\* channel.onopen: emit DATA_CHANNEL_OPEN (the orchestrator retries its queue),
\* then the answerer in trickle mode sends its answer and pending candidates
OnOpen(p, failing) ==
  /\ dataChannel[p] \in {"connecting", "announced"}
  /\ failing \subseteq 1..Len(messageQueue[p])
  /\ dataChannel' = [dataChannel EXCEPT ![p] = "open"]
  /\ LET ready == state[p] = "connected"
         toRetry == IF eventListeners[p] THEN messageQueue[p] ELSE <<>>
         retried == RetryQueuedMessages(toRetry, 1, ready, failing)
         flush == trickleIceEnabled[p] /\ role[p] = "answerer" /\ peerConnection[p] # 0
         flushed == IF flush THEN AnswerFlush(p) ELSE <<>>
         out == IF SentBeforeFirstAwait(toRetry, ready, failing)
                  THEN <<Head(retried.sent)>> \o flushed \o Tail(retried.sent)
                  ELSE flushed \o retried.sent
     IN /\ messageQueue' = IF eventListeners[p]
                             THEN [messageQueue EXCEPT ![p] = retried.queue]
                             ELSE messageQueue
        /\ sentLog' = [sentLog EXCEPT ![p] = @ \o out]
        /\ pendingIceCandidates' =
             IF flush /\ flushed # <<>>
               THEN [pendingIceCandidates EXCEPT ![p] = <<>>]
               ELSE pendingIceCandidates
  /\ UNCHANGED <<state, role, trickleIceEnabled, peerConnection,
                 iceCandidatesBuffer, eventListeners, tpVars, call,
                 messageHistory, retryCount, msgCount, delivered>>
  /\ NoReturn
  /\ NothingRouted
  /\ NothingEmitted
  /\ UNCHANGED <<oob, entry, protoVars, config, codecVars, timers>>

\* handleSignalingMessage: the transport calls it makes.  Nothing after its
\* await changes the session: a rejection is logged and emitted as ERROR.
HandleSignalingMessage(p, message, ok) ==
  IF message.type = "answer" /\ peerConnection[p] # 0
    THEN /\ sigApplied' = [sigApplied EXCEPT ![p].srd = @ + 1]
         /\ remoteDescription' = IF ok /\ connectionState[p] # "closed"
                                   THEN [remoteDescription EXCEPT ![p] = "answer"]
                                   ELSE remoteDescription
    ELSE IF message.type = "ice-candidate" /\ message.body # 0 /\ peerConnection[p] # 0
      THEN /\ sigApplied' = [sigApplied EXCEPT ![p].ice = @ + 1]
           /\ UNCHANGED remoteDescription
      ELSE UNCHANGED <<sigApplied, remoteDescription>>

\* OnMessage without the else: a signaling frame is handled and also emitted as
\* MESSAGE_RECEIVED
OnMessageSurfacesSignaling(p, frame, ok) ==
  IF frame.kind # "obj"
    THEN /\ Routes(p, [frame |-> frame, to |-> "error", layer |-> FALSE])
         /\ UNCHANGED <<sigApplied, remoteDescription, messageHistory>>
    ELSE /\ Routes(p, [frame |-> frame, to |-> "application",
                         layer |-> eventListeners[p]])
         /\ messageHistory' =
              IF eventListeners[p]
                THEN [messageHistory EXCEPT ![p] = ProcessMessage(@, frame, maxHistorySize[p])]
                ELSE messageHistory
         /\ IF frame.sig
              THEN HandleSignalingMessage(p, frame, ok)
              ELSE UNCHANGED <<sigApplied, remoteDescription>>

\* channel.onmessage
OnMessage(p, frame, ok) ==
  IF frame.kind # "obj"
    \* JSON.parse throws, or reading __signaling of null throws: ERROR is emitted
    THEN /\ Routes(p, [frame |-> frame, to |-> "error", layer |-> FALSE])
         /\ UNCHANGED <<sigApplied, remoteDescription, messageHistory>>
    ELSE IF frame.sig
      THEN /\ Routes(p, [frame |-> frame, to |-> "signaling", layer |-> FALSE])
           /\ HandleSignalingMessage(p, frame, ok)
           /\ UNCHANGED messageHistory
      \* emit MESSAGE_RECEIVED: the orchestrator's listener runs processMessage
      ELSE /\ Routes(p, [frame |-> frame, to |-> "application",
                           layer |-> eventListeners[p]])
           /\ messageHistory' =
                IF eventListeners[p]
                  THEN [messageHistory EXCEPT ![p] = ProcessMessage(@, frame, maxHistorySize[p])]
                  ELSE messageHistory
           /\ UNCHANGED <<sigApplied, remoteDescription>>

\* The frames the remote end can put on the channel.
RemoteFrames ==
  {AnswerEnvelope, IceEnvelope(Candidate(2, 1, 1)), AppMessage(21), NullFrame,
   GarbageFrame}

\* A frame from an arbitrary remote end arrives
Receive(p, frame, ok) ==
  /\ IsOpen(p)
  /\ sigApplied[p].srd + sigApplied[p].ice + Len(messageHistory[p]) < MaxRecv
  /\ OnMessage(p, frame, ok)
  /\ UNCHANGED <<sessVars, localDescription, connectionState, gathered, gen,
                 call, messageQueue, retryCount, msgCount, sentLog, delivered>>
  /\ NoReturn
  /\ NothingEmitted
  /\ UNCHANGED <<oob, entry, protoVars, config, codecVars, timers>>

\* The next frame the peer sent arrives (ordered, reliable delivery)
Deliver(p, ok) ==
  /\ IsOpen(p)
  /\ delivered[p] < Len(sentLog[Other(p)])
  /\ delivered' = [delivered EXCEPT ![p] = @ + 1]
  /\ OnMessage(p, sentLog[Other(p)][delivered[p] + 1], ok)
  /\ UNCHANGED <<sessVars, localDescription, connectionState, gathered, gen,
                 call, messageQueue, retryCount, msgCount, sentLog>>
  /\ NoReturn
  /\ NothingEmitted
  /\ UNCHANGED <<oob, entry, protoVars, config, codecVars, timers>>

----------------------------------------------------------------------------
(* The orchestrator's join entry points: joinQRConnection and              *)
(* joinRemoteConnection, with QRBootstrap and RemoteBootstrap.             *)

MaxAgeMs == 300000        \* isTokenExpired: maxAgeMs default
MinUsernameLength == 3    \* lookupToken: username.length < 3
Now == 1000000            \* Date.now() at the join

\* metadata.timestamp of a token: 0 stands for a missing (falsy) timestamp
Timestamps == {0, Now - MaxAgeMs - 1, Now - MaxAgeMs, Now}
\* metadata.expiresAt of a published token: 0 stands for a missing one
ExpiresAts == {0, Now - 1, Now + 1}

\* The tokens handed to a join: type, sdp and connectionId say whether
\* offer.type, offer.sdp and metadata.connectionId are present.
WellFormedTokens ==
  [trickle : BOOLEAN, cands : BOOLEAN, type : {TRUE}, sdp : {TRUE},
   connectionId : {TRUE}, timestamp : {Now - MaxAgeMs, Now}, expiresAt : ExpiresAts]

\* tokens with one thing wrong: a field missing, or too old
DefectiveTokens ==
  LET base == [trickle |-> FALSE, cands |-> FALSE, type |-> TRUE, sdp |-> TRUE,
               connectionId |-> TRUE, timestamp |-> Now, expiresAt |-> 0]
  IN {[base EXCEPT !.type = FALSE], [base EXCEPT !.sdp = FALSE],
      [base EXCEPT !.connectionId = FALSE], [base EXCEPT !.timestamp = 0]}
     \cup {[base EXCEPT !.timestamp = Now - MaxAgeMs - 1, !.expiresAt = e] :
             e \in ExpiresAts}

JoinTokens == WellFormedTokens \cup DefectiveTokens

\* QRBootstrap.validateToken and RemoteBootstrap.validateToken (the same test)
ValidateToken(token) ==
  token.type /\ token.sdp /\ token.timestamp # 0 /\ token.connectionId

\* QRBootstrap.isTokenExpired
IsTokenExpired(token) ==
  IF token.timestamp = 0 THEN TRUE ELSE Now - token.timestamp > MaxAgeMs

\* QRBootstrap.compressToken reads token.offer.sdp: a value without an offer
\* makes it throw a TypeError
CompressToken(token) == IF token.offer THEN "payload" ELSE "TypeError"

\* QRBootstrap.generateQRCode: compressToken, then the QR encoder
GenerateQRCode(token) ==
  IF CompressToken(token) = "TypeError" THEN "BOOTSTRAP_GENERATION_FAILED"
  ELSE "dataUrl"

\* the answerToken joinQRConnection builds from the session's result: {a, i}
AnswerToken(r) == [offer |-> FALSE, a |-> TRUE, i |-> r.cands]

\* What joinQRConnection hands its caller for what connectWithBootstrapToken
\* returned or threw (r): every error is rethrown as CONNECTION_FAILED.
JoinQRConnectionReturn(r) ==
  CASE r.out = "null" ->
         [NoResult EXCEPT !.op = "joinQR", !.out = "isTrickleICE", !.trickle = TRUE]
    [] r.out = "answer" ->
         IF GenerateQRCode(AnswerToken(r)) = "dataUrl"
           THEN [NoResult EXCEPT !.op = "joinQR", !.out = "answer", !.cands = r.cands]
           ELSE [NoResult EXCEPT !.op = "joinQR", !.out = "CONNECTION_FAILED",
                                 !.why = "Failed to generate QR code"]
    [] OTHER ->
         [NoResult EXCEPT !.op = "joinQR", !.out = "CONNECTION_FAILED", !.why = r.out]

\* What joinRemoteConnection hands its caller for what connectWithBootstrapToken
\* returned or threw (r): the method is Promise<void> and awaits the call
\* without reading its value; every error is rethrown as REMOTE_SERVICE_ERROR.
JoinRemoteConnectionReturn(r) ==
  IF r.out \in {"null", "answer"}
    THEN [NoResult EXCEPT !.op = "joinRemote", !.out = "void"]
    ELSE [NoResult EXCEPT !.op = "joinRemote", !.out = "REMOTE_SERVICE_ERROR",
                          !.why = r.out]

\* a join that throws before it reaches the session
JoinRejected(p, r) ==
  /\ Returns(p, r)
  /\ NothingRouted
  /\ NothingEmitted
  /\ UNCHANGED <<sessVars, tpVars, call, mgrVars, wireVars, oob, entry,
                 protoVars, config, codecVars, timers>>

\* joinQRConnection, up to the first await inside connectWithBootstrapToken
JoinQRConnection(p, token) ==
  /\ call[p].op = "none"
  /\ IF ~ValidateToken(token)
       THEN JoinRejected(p, [NoResult EXCEPT !.op = "joinQR",
                                             !.out = "CONNECTION_FAILED",
                                             !.why = "Invalid bootstrap token"])
       ELSE IF IsTokenExpired(token)
         THEN JoinRejected(p, [NoResult EXCEPT !.op = "joinQR",
                                               !.out = "CONNECTION_FAILED",
                                               !.why = "Bootstrap token has expired"])
         ELSE /\ ConnectBegin(p, token)
              /\ entry' = [entry EXCEPT ![p] = "qr"]

\* What the lookup service answers: the HTTP status (0: fetch fails) and the
\* token of the body, if any.
NoToken == [trickle |-> FALSE, cands |-> FALSE, type |-> FALSE, sdp |-> FALSE,
            connectionId |-> FALSE, timestamp |-> 0, expiresAt |-> 0]
LookupAnswers ==
  {[status |-> st, hasToken |-> FALSE, token |-> NoToken] : st \in {0, 404, 500, 200}}
  \cup {[status |-> 200, hasToken |-> TRUE, token |-> t] : t \in JoinTokens}

\* RemoteBootstrap.lookupToken for a username of the given length
LookupToken(usernameLength, answer) ==
  IF usernameLength < MinUsernameLength
    THEN [out |-> "REMOTE_SERVICE_ERROR", why |-> "Username must be at least 3 characters",
          token |-> NoToken]
  ELSE IF answer.status = 0
    THEN [out |-> "REMOTE_SERVICE_ERROR", why |-> "Failed to lookup token from resolver",
          token |-> NoToken]
  ELSE IF answer.status = 404
    THEN [out |-> "not found", why |-> "404", token |-> NoToken]
  ELSE IF answer.status # 200
    THEN [out |-> "REMOTE_SERVICE_ERROR", why |-> "Failed to lookup token from resolver",
          token |-> NoToken]
  ELSE IF ~answer.hasToken
    THEN [out |-> "not found", why |-> "no token", token |-> NoToken]
  ELSE IF ~ValidateToken(answer.token)
    THEN [out |-> "BOOTSTRAP_PARSE_FAILED", why |-> "Invalid token format",
          token |-> NoToken]
  ELSE IF answer.token.expiresAt # 0 /\ Now > answer.token.expiresAt
    THEN [out |-> "not found", why |-> "expired", token |-> NoToken]
  ELSE [out |-> "found", why |-> "none", token |-> answer.token]

\* JoinRemoteConnection without the test of lookupResponse.found: the missing
\* token goes to connectWithBootstrapToken, which fails on it
JoinRemoteConnectionIgnoresNotFound(p, usernameLength, answer) ==
  /\ call[p].op = "none"
  /\ LET looked == LookupToken(usernameLength, answer)
     IN IF looked.out \in {"found", "not found"}
          THEN /\ ConnectBegin(p, looked.token)
               /\ entry' = [entry EXCEPT ![p] = "remote"]
          ELSE JoinRejected(p, [NoResult EXCEPT
                 !.op = "joinRemote",
                 !.out = "REMOTE_SERVICE_ERROR",
                 !.why = looked.why])

\* joinRemoteConnection of an orchestrator configured with a lookup service,
\* from the moment lookupToken settles (nothing of the session is touched
\* before), up to the first await inside connectWithBootstrapToken.  Every
\* error is rethrown as REMOTE_SERVICE_ERROR.
JoinRemoteConnection(p, usernameLength, answer) ==
  /\ call[p].op = "none"
  /\ LET looked == LookupToken(usernameLength, answer)
     IN IF looked.out = "found"
          THEN /\ ConnectBegin(p, looked.token)
               /\ entry' = [entry EXCEPT ![p] = "remote"]
          ELSE JoinRejected(p, [NoResult EXCEPT
                 !.op = "joinRemote",
                 !.out = "REMOTE_SERVICE_ERROR",
                 !.why = IF looked.out = "not found"
                           THEN "No connection found for username"
                           ELSE looked.why])

----------------------------------------------------------------------------
(* Spec: one session and its orchestrator against an arbitrary transport   *)
(* and an arbitrary remote end.  The application's own sends are part of   *)
(* SpecE2E.                                                                *)

Session == 1

\* connectWithBootstrapToken called on the session itself
ConnectDirect(p, token) ==
  /\ ConnectBegin(p, token)
  /\ entry' = [entry EXCEPT ![p] = "session"]

Next ==
  \/ \E t \in BOOLEAN : CreateBegin(Session, t)
  \/ \E ok \in BOOLEAN : CreateOffered(Session, ok)
  \/ \E ok \in BOOLEAN : CreateLocalSet(Session, ok)
  \/ CreateGathered(Session)
  \/ \E token \in Tokens : ConnectDirect(Session, token)
  \/ \E ok \in BOOLEAN : ConnectRemoteSet(Session, ok)
  \/ \E ok \in BOOLEAN : ConnectCandidatesAdded(Session, ok)
  \/ \E ok \in BOOLEAN : ConnectAnswered(Session, ok)
  \/ \E ok \in BOOLEAN : ConnectLocalSet(Session, ok)
  \/ ConnectGathered(Session)
  \/ \E c \in BOOLEAN : ReceiveBegin(Session, c)
  \/ \E ok \in BOOLEAN : ReceiveRemoteSet(Session, ok)
  \/ \E ok \in BOOLEAN : ReceiveCandidatesAdded(Session, ok)
  \/ Close(Session)
  \/ IceCandidate(Session)
  \/ \E s \in {"connected", "disconnected", "failed", "closed"} :
       OnConnectionStateChange(Session, s)
  \/ OnDataChannel(Session)
  \/ \E failing \in SUBSET (1..Len(messageQueue[Session])) : OnOpen(Session, failing)
  \/ \E frame \in RemoteFrames, ok \in BOOLEAN : Receive(Session, frame, ok)

Spec == Init /\ [][Next]_vars

----------------------------------------------------------------------------
(* SpecE2E: the two end-to-end scenarios.  Peer 1 creates a token (trickle  *)
(* or not), the token reaches peer 2 out of band, peer 2's session is      *)
(* begun as responder with it; without trickle the answer goes back out of *)
(* band and peer 1 completes with it.  Every transport call succeeds, the  *)
(* transport connects, the channel delivers in order, and both             *)
(* applications send messages.                                             *)

Initiator == 1
Responder == 2

\* createQRConnection(useTrickleICE), once
E2ECreate(t) == gen[Initiator] = 0 /\ CreateBegin(Initiator, t)

\* the token createQRConnection returned is shown to peer 2
E2EShowToken ==
  /\ result[Initiator].out = "token"
  /\ oob' = [oob EXCEPT !.token = [set |-> TRUE,
                                   trickle |-> result[Initiator].trickle,
                                   cands |-> result[Initiator].cands # <<>>]]
  /\ NoReturn
  /\ NothingRouted
  /\ NothingEmitted
  /\ UNCHANGED <<sessVars, tpVars, call, mgrVars, wireVars, entry, protoVars,
                 config, codecVars, timers>>

\* connectWithBootstrapToken(token) on the responder's session, once, with the
\* token peer 1 created
E2EJoin ==
  /\ oob.token.set
  /\ gen[Responder] = 0
  /\ ConnectDirect(Responder, [trickle |-> oob.token.trickle,
                               cands |-> oob.token.cands])

\* the answer connectWithBootstrapToken returned is shown to peer 1
E2EShowAnswer ==
  /\ result[Responder].out = "answer"
  /\ oob' = [oob EXCEPT !.answer = [set |-> TRUE,
                                    cands |-> result[Responder].cands # <<>>]]
  /\ NoReturn
  /\ NothingRouted
  /\ NothingEmitted
  /\ UNCHANGED <<sessVars, tpVars, call, mgrVars, wireVars, entry, protoVars,
                 config, codecVars, timers>>

\* completeQRConnection(answerToken), called on the initiator in AwaitingAnswer
E2EComplete ==
  /\ oob.answer.set
  /\ state[Initiator] = "awaiting_answer"
  /\ ReceiveBegin(Initiator, oob.answer.cands)

E2ENext ==
  \/ \E t \in BOOLEAN : E2ECreate(t)
  \/ CreateOffered(Initiator, TRUE)
  \/ CreateLocalSet(Initiator, TRUE)
  \/ CreateGathered(Initiator)
  \/ E2EShowToken
  \/ E2EJoin
  \/ ConnectRemoteSet(Responder, TRUE)
  \/ ConnectCandidatesAdded(Responder, TRUE)
  \/ ConnectAnswered(Responder, TRUE)
  \/ ConnectLocalSet(Responder, TRUE)
  \/ ConnectGathered(Responder)
  \/ E2EShowAnswer
  \/ E2EComplete
  \/ ReceiveRemoteSet(Initiator, TRUE)
  \/ ReceiveCandidatesAdded(Initiator, TRUE)
  \/ \E p \in Peers : IceCandidate(p)
  \/ \E p \in Peers : OnConnectionStateChange(p, "connected")
  \/ OnDataChannel(Responder)
  \/ \E p \in Peers : OnOpen(p, {})
  \/ \E p \in Peers, ok \in BOOLEAN : Send(p, ok)
  \/ \E p \in Peers : Deliver(p, TRUE)

SpecE2E == Init /\ [][E2ENext]_vars

----------------------------------------------------------------------------
(* SpecDrain: the end-to-end scenarios with a transport that never fails a *)
(* send and opens the data channel once both descriptions are set.  The    *)
(* open event of the channel and the "connected" event of the transport    *)
(* are separate tasks and arrive in either order.  Every task that is      *)
(* ready to run is eventually run.                                         *)

\* channel.onopen on a negotiated transport
ChannelOpens(p) ==
  /\ localDescription[p] # "none"
  /\ remoteDescription[p] # "none"
  /\ OnOpen(p, {})

DrainNext ==
  \/ \E t \in BOOLEAN : E2ECreate(t)
  \/ CreateOffered(Initiator, TRUE)
  \/ CreateLocalSet(Initiator, TRUE)
  \/ CreateGathered(Initiator)
  \/ E2EShowToken
  \/ E2EJoin
  \/ ConnectRemoteSet(Responder, TRUE)
  \/ ConnectCandidatesAdded(Responder, TRUE)
  \/ ConnectAnswered(Responder, TRUE)
  \/ ConnectLocalSet(Responder, TRUE)
  \/ ConnectGathered(Responder)
  \/ E2EShowAnswer
  \/ E2EComplete
  \/ ReceiveRemoteSet(Initiator, TRUE)
  \/ ReceiveCandidatesAdded(Initiator, TRUE)
  \/ \E p \in Peers : IceCandidate(p)
  \/ \E p \in Peers : OnConnectionStateChange(p, "connected")
  \/ OnDataChannel(Responder)
  \/ \E p \in Peers : ChannelOpens(p)
  \/ \E p \in Peers : Send(p, TRUE)
  \/ \E p \in Peers : Deliver(p, TRUE)

SpecDrain == Init /\ [][DrainNext]_vars /\ WF_vars(DrainNext)

----------------------------------------------------------------------------
(* SpecJoin: one orchestrator joined through joinQRConnection and          *)
(* joinRemoteConnection with arbitrary tokens and lookup answers, against  *)
(* an arbitrary transport.                                                 *)

JoinNext ==
  \/ \E token \in JoinTokens : JoinQRConnection(Session, token)
  \/ \E n \in {MinUsernameLength - 1, MinUsernameLength}, answer \in LookupAnswers :
       JoinRemoteConnection(Session, n, answer)
  \/ \E ok \in BOOLEAN : ConnectRemoteSet(Session, ok)
  \/ \E ok \in BOOLEAN : ConnectCandidatesAdded(Session, ok)
  \/ \E ok \in BOOLEAN : ConnectAnswered(Session, ok)
  \/ \E ok \in BOOLEAN : ConnectLocalSet(Session, ok)
  \/ ConnectGathered(Session)
  \/ Close(Session)
  \/ IceCandidate(Session)
  \/ \E s \in {"connected", "disconnected", "failed", "closed"} :
       OnConnectionStateChange(Session, s)
  \/ OnDataChannel(Session)
  \/ OnOpen(Session, {})

SpecJoin == Init /\ [][JoinNext]_vars

----------------------------------------------------------------------------
(* SpecMsg: one MessageProtocol called directly by the application:        *)
(* handlers registered for the message type and for '*', the history cap   *)
(* set, messages processed.                                                *)

\* what a registered handler does when called: it returns (or resolves), it
\* throws synchronously, or it returns a promise that rejects
Behaviours == {"returns", "throws", "rejects"}

NotDispatching(p) == dispatched' = [dispatched EXCEPT ![p] = NoDispatch]

\* on(messageType, handler), on('*', handler): kind is "specific" or "wildcard"
On(p, kind, behaviour) ==
  /\ Len(handlers[p].specific) + Len(handlers[p].wildcard) < MaxHandlers
  /\ handlers' = [handlers EXCEPT ![p][kind] = Append(@, behaviour)]
  /\ NotDispatching(p)
  /\ UNCHANGED <<sessVars, tpVars, call, mgrVars, wireVars, outVars, oob, entry,
                 config, codecVars, timers>>
  /\ UNCHANGED <<maxHistorySize, attempts, schemaVars>>

\* allHandlers of processMessage: the specific handlers, then the wildcard ones
AllHandlers(hs) == hs.specific \o hs.wildcard

\* a message whose type is the literal '*'; no schema is registered for it
WildcardTyped == Frame("obj", FALSE, "*", 0)

\* handlers.get(message.type): the specific handlers are those registered for
\* the payment type, and the key '*' holds the wildcard ones
SpecificHandlers(hs, m) == IF m.type = "*" THEN hs.wildcard ELSE hs.specific

\* allHandlers of processMessage for the message: handlers.get(message.type),
\* then handlers.get('*')
HandlersOf(hs, m) ==
  IF m.type = "*" THEN SpecificHandlers(hs, m) \o hs.wildcard ELSE AllHandlers(hs)

\* the registration (the key and the position under it) that entry i of
\* allHandlers comes from
Registration(hs, m, i) ==
  LET n == Len(SpecificHandlers(hs, m))
  IN IF i <= n
       THEN [kind |-> IF m.type = "*" THEN "wildcard" ELSE "specific", index |-> i]
       ELSE [kind |-> "wildcard", index |-> i - n]

\* allHandlers.map(handler => handler(message)) calls the handlers in order
\* and stops at the first that throws: the indices of the handlers called
Invoked(all) ==
  LET throwers == {i \in 1..Len(all) : all[i] = "throws"}
  IN IF throwers = {}
       THEN 1..Len(all)
       ELSE 1..(CHOOSE i \in throwers : \A j \in throwers : i <= j)

\* processMessage, what the call does besides the history: it throws when the
\* message is invalid or a handler throws; Promise.allSettled absorbs rejections
Dispatch(hs, m) ==
  IF ~ValidMessage(m)
    THEN [out |-> "error", msg |-> m, invoked |-> {}]
    ELSE LET all == HandlersOf(hs, m)
         IN [out |-> IF \E i \in 1..Len(all) : all[i] = "throws"
                       THEN "error" ELSE "ok",
             msg |-> m,
             invoked |-> Invoked(all)]

\* the C17 mutant: processMessage returning before addToHistory when no
\* handler is registered
ProcessMessageCallHandlersFirst(p, m) ==
  /\ Len(messageHistory[p]) < MaxKept
  /\ messageHistory' =
       [messageHistory EXCEPT ![p] =
          IF AllHandlers(handlers[p]) = <<>>
            THEN @ ELSE ProcessMessage(@, m, maxHistorySize[p])]
  /\ dispatched' = [dispatched EXCEPT ![p] = Dispatch(handlers[p], m)]
  /\ UNCHANGED <<sessVars, tpVars, call, wireVars, outVars, oob, entry, config,
                 codecVars, timers>>
  /\ UNCHANGED <<messageQueue, retryCount, msgCount>>
  /\ UNCHANGED <<maxHistorySize, handlers, attempts, schemaVars>>

\* processMessage(message)
ProcessMessageCall(p, m) ==
  /\ Len(messageHistory[p]) < MaxKept
  /\ messageHistory' =
       [messageHistory EXCEPT ![p] = ProcessMessage(@, m, maxHistorySize[p])]
  /\ dispatched' = [dispatched EXCEPT ![p] = Dispatch(handlers[p], m)]
  /\ UNCHANGED <<sessVars, tpVars, call, wireVars, outVars, oob, entry, config,
                 codecVars, timers>>
  /\ UNCHANGED <<messageQueue, retryCount, msgCount>>
  /\ UNCHANGED <<maxHistorySize, handlers, attempts, schemaVars>>

\* setMaxHistorySize(size)
SetMaxHistorySize(p, size) ==
  /\ maxHistorySize' = [maxHistorySize EXCEPT ![p] = size]
  /\ messageHistory' =
       [messageHistory EXCEPT ![p] =
          IF Len(@) > size THEN SliceLast(@, size) ELSE @]
  /\ NotDispatching(p)
  /\ UNCHANGED <<sessVars, tpVars, call, wireVars, outVars, oob, entry, config,
                 codecVars, timers>>
  /\ UNCHANGED <<messageQueue, retryCount, msgCount>>
  /\ UNCHANGED <<handlers, attempts, schemaVars>>

Incoming == {AppMessage(1), AppMessage(2), BadMessage}

MsgNext ==
  \/ \E kind \in {"specific", "wildcard"}, b \in Behaviours : On(Session, kind, b)
  \/ \E m \in Incoming : ProcessMessageCall(Session, m)
  \/ \E size \in 0..MaxCap : SetMaxHistorySize(Session, size)

SpecMsg == Init /\ [][MsgNext]_vars

----------------------------------------------------------------------------
(* SpecWildcard: one MessageProtocol whose application registers handlers  *)
(* for the payment type and for '*' and processes payment messages and     *)
(* messages whose type is the literal '*'.                                 *)

WildcardNext ==
  \/ \E kind \in {"specific", "wildcard"}, b \in Behaviours : On(Session, kind, b)
  \/ \E m \in {AppMessage(1), WildcardTyped} : ProcessMessageCall(Session, m)

SpecWildcard == Init /\ [][WildcardNext]_vars

----------------------------------------------------------------------------
(* SpecRetry: one MessageProtocol whose queue the application fills with   *)
(* queueMessage and drains with retryQueuedMessages(sendFn), for a sendFn  *)
(* that sends or throws and does not touch the queue itself.               *)

\* createMessage, then queueMessage: message ids are fresh
QueueMessageCall(p) ==
  /\ msgCount[p] < MaxQueued
  /\ msgCount' = [msgCount EXCEPT ![p] = @ + 1]
  /\ messageQueue' =
       [messageQueue EXCEPT ![p] = QueueMessage(@, AppMessage(msgCount[p] + 1))]
  /\ UNCHANGED <<sessVars, tpVars, call, wireVars, outVars, oob, entry, config,
                 codecVars, timers>>
  /\ UNCHANGED <<messageHistory, retryCount, protoVars, config, codecVars, timers>>

\* the C18 mutant: the retry loop dropping an entry only when its count is
\* above maxRetries
RECURSIVE RetryWithOneMore(_, _, _)
RetryWithOneMore(toRetry, i, failing) ==
  IF i > Len(toRetry)
    THEN [queue |-> <<>>, tried |-> <<>>]
    ELSE LET queued == toRetry[i]
             rest == RetryWithOneMore(toRetry, i + 1, failing)
         IN IF queued.retries > ProtocolMaxRetries
              THEN rest
              ELSE IF i \notin failing
                     THEN [queue |-> rest.queue,
                           tried |-> <<[message |-> queued.message, ok |-> TRUE]>>
                                     \o rest.tried]
                     ELSE [queue |-> <<[message |-> queued.message,
                                        retries |-> queued.retries + 1]>>
                                     \o rest.queue,
                           tried |-> <<[message |-> queued.message, ok |-> FALSE]>>
                                     \o rest.tried]

\* retryQueuedMessages(sendFn) from entry i of the drained queue on, sendFn
\* throwing for the entries in failing: the queue rebuilt and the calls of
\* sendFn made, in order
RECURSIVE RetryWith(_, _, _)
RetryWith(toRetry, i, failing) ==
  IF i > Len(toRetry)
    THEN [queue |-> <<>>, tried |-> <<>>]
    ELSE LET queued == toRetry[i]
             rest == RetryWith(toRetry, i + 1, failing)
         IN IF queued.retries >= ProtocolMaxRetries
              THEN rest
              ELSE IF i \notin failing
                     THEN [queue |-> rest.queue,
                           tried |-> <<[message |-> queued.message, ok |-> TRUE]>>
                                     \o rest.tried]
                     ELSE [queue |-> <<[message |-> queued.message,
                                        retries |-> queued.retries + 1]>>
                                     \o rest.queue,
                           tried |-> <<[message |-> queued.message, ok |-> FALSE]>>
                                     \o rest.tried]

\* the calls of sendFn counted per message
Count(tried, id, ok) ==
  Cardinality({i \in 1..Len(tried) :
                 tried[i].message = AppMessage(id) /\ tried[i].ok = ok})

\* retryQueuedMessages(sendFn)
RetryQueuedMessagesCall(p, failing) ==
  /\ messageQueue[p] # <<>>
  /\ LET r == RetryWith(messageQueue[p], 1, failing)
     IN /\ messageQueue' = [messageQueue EXCEPT ![p] = r.queue]
        /\ attempts' =
             [attempts EXCEPT ![p] =
                [id \in DOMAIN @ |->
                   [failed |-> @[id].failed + Count(r.tried, id, FALSE),
                    sent |-> @[id].sent + Count(r.tried, id, TRUE)]]]
  /\ UNCHANGED <<sessVars, tpVars, call, wireVars, outVars, oob, entry, config,
                 codecVars, timers>>
  /\ UNCHANGED <<messageHistory, retryCount, msgCount>>
  /\ UNCHANGED <<maxHistorySize, handlers, dispatched, schemaVars>>

RetryNext ==
  \/ QueueMessageCall(Session)
  \/ \E failing \in SUBSET (1..MaxQueued) : RetryQueuedMessagesCall(Session, failing)

SpecRetry == Init /\ [][RetryNext]_vars

----------------------------------------------------------------------------
(* SpecSchema: one MessageProtocol on which the application registers      *)
(* schemas and creates messages.                                           *)

Fields == {"amount", "currency"}

\* payloads: an object with some of the fields, null, a string, undefined;
\* good is what a custom predicate of a schema looks at
Payloads ==
  [kind : {"object"}, fields : SUBSET Fields, good : BOOLEAN]
    \cup [kind : {"null", "string"}, fields : {{}}, good : BOOLEAN]
    \cup {NoPayload}

\* schemas: requiredFields a list of fields (possibly empty), validate absent
\* ("none") or a predicate on the payload ("isGood")
Schemas ==
  [set : {TRUE}, requiredFields : SUBSET Fields, validate : {"none", "isGood"}]

\* registerSchema(schema)
RegisterSchema(p, type, schema) ==
  /\ schemas' = [schemas EXCEPT ![p][type] = schema]
  /\ created' = [created EXCEPT ![p] = NoMessage]
  /\ UNCHANGED <<sessVars, tpVars, call, mgrVars, wireVars, outVars, oob, entry,
                 config, codecVars, timers>>
  /\ UNCHANGED <<maxHistorySize, handlers, dispatched, attempts>>

\* validateMessage: the required fields are looked for only in a payload that
\* is an object and not null, then the custom predicate is run
ValidateMessage(schema, payload) ==
  IF ~schema.set
    THEN "ok"
    ELSE IF /\ payload.kind = "object"
            /\ \E f \in schema.requiredFields : f \notin payload.fields
           THEN "Missing required field"
           ELSE IF schema.validate = "isGood" /\ ~payload.good
                  THEN "Validation failed"
                  ELSE "ok"

\* createMessage(type, payload)
CreateMessage(p, type, payload) ==
  /\ LET v == ValidateMessage(schemas[p][type], payload)
     IN created' = [created EXCEPT ![p] =
                      [out |-> IF v = "ok" THEN "message" ELSE "error",
                       why |-> v, type |-> type, payload |-> payload]]
  /\ UNCHANGED <<sessVars, tpVars, call, mgrVars, wireVars, outVars, oob, entry,
                 config, codecVars, timers>>
  /\ UNCHANGED <<maxHistorySize, handlers, dispatched, attempts, schemas>>

SchemaNext ==
  \/ \E type \in MessageTypes, schema \in Schemas : RegisterSchema(Session, type, schema)
  \/ \E type \in MessageTypes, payload \in Payloads :
       CreateMessage(Session, type, payload)

SpecSchema == Init /\ [][SchemaNext]_vars

----------------------------------------------------------------------------
(* SpecAutoRetry: one orchestrator constructed with an arbitrary autoRetry  *)
(* and maxRetries, whose session fails: createBootstrapToken calls whose    *)
(* transport calls reject, and the transport reporting its states.          *)

Configs == [autoRetry : BOOLEAN, maxRetries : 0..MaxConfigRetries]

InitConfigured == \E cfg \in Configs : InitWith(cfg)

AutoRetryNext ==
  \/ \E t \in BOOLEAN : CreateBegin(Session, t)
  \/ \E ok \in BOOLEAN : CreateOffered(Session, ok)
  \/ \E ok \in BOOLEAN : CreateLocalSet(Session, ok)
  \/ CreateGathered(Session)
  \/ IceCandidate(Session)
  \/ \E s \in {"connected", "disconnected", "failed", "closed"} :
       OnConnectionStateChange(Session, s)
  \/ Close(Session)

SpecAutoRetry == InitConfigured /\ [][AutoRetryNext]_vars

----------------------------------------------------------------------------
(* SpecReject: one orchestrator whose session is brought up as trickle     *)
(* initiator, whose application registers handlers, sends valid and        *)
(* invalid payloads and feeds messages to its MessageProtocol, and whose   *)
(* remote end sends valid and invalid application messages.                *)

\* ConnectionManager.send with a payload that fails the schema of its type:
\* createMessage throws and sendMessage is not reached
SendRejected(p) ==
  /\ Returns(p, SendReturn("error", "Missing required field"))
  /\ UNCHANGED <<sessVars, tpVars, call, mgrVars, wireVars>>
  /\ NothingRouted
  /\ NothingEmitted
  /\ UNCHANGED <<oob, entry, protoVars, config, codecVars, timers>>

RejectNext ==
  \/ gen[Session] = 0 /\ CreateBegin(Session, TRUE)
  \/ CreateOffered(Session, TRUE)
  \/ CreateLocalSet(Session, TRUE)
  \/ OnConnectionStateChange(Session, "connected")
  \/ OnOpen(Session, {})
  \/ \E frame \in {AnswerEnvelope, AppMessage(21), BadMessage} :
       Receive(Session, frame, TRUE)
  \/ \E kind \in {"specific", "wildcard"} : On(Session, kind, "returns")
  \/ \E m \in Incoming : ProcessMessageCall(Session, m)
  \/ \E ok \in BOOLEAN : Send(Session, ok)
  \/ SendRejected(Session)

SpecReject == Init /\ [][RejectNext]_vars

----------------------------------------------------------------------------
(* SpecFlush: one session begun as responder, against a transport that      *)
(* announces the remote end's data channel only once the session has       *)
(* applied the offer and its own answer, and that discovers up to          *)
(* MaxFlushCand candidates per peer connection.                            *)

\* pc.ondatachannel of a negotiated peer connection
ChannelAnnounced(p) ==
  /\ localDescription[p] # "none"
  /\ OnDataChannel(p)

FlushNext ==
  \/ \E token \in Tokens : ConnectDirect(Session, token)
  \/ \E ok \in BOOLEAN : ConnectRemoteSet(Session, ok)
  \/ \E ok \in BOOLEAN : ConnectCandidatesAdded(Session, ok)
  \/ \E ok \in BOOLEAN : ConnectAnswered(Session, ok)
  \/ \E ok \in BOOLEAN : ConnectLocalSet(Session, ok)
  \/ ConnectGathered(Session)
  \/ Discover(Session, MaxFlushCand)
  \/ ChannelAnnounced(Session)
  \/ OnOpen(Session, {})
  \/ \E s \in {"connected", "disconnected", "failed", "closed"} :
       OnConnectionStateChange(Session, s)
  \/ Close(Session)

SpecFlush == Init /\ [][FlushNext]_vars

----------------------------------------------------------------------------
(* QRBootstrap's token codec: compressToken and decompressToken on byte     *)
(* strings.  base64 (btoa / atob) carries the bytes unchanged and is left   *)
(* out, except for the call that feeds it.                                  *)

\* what reading past the end of a Uint8Array gives, and a number that is not one
Undefined == -1
NaN == -2

\* capacity of the length prefixes, and the least number of call arguments at
\* which an engine may refuse String.fromCharCode(...binary)
Uint8Size == 256
Uint16Size == 65536
SpreadArgumentsFloor == 65535

Cat(x, y) ==
  IF x = <<>> THEN y
  ELSE IF y = <<>> THEN x
  ELSE IF x[Len(x)].b = y[1].b
         THEN SubSeq(x, 1, Len(x) - 1)
                \o <<[b |-> y[1].b, n |-> x[Len(x)].n + y[1].n]>> \o Tail(y)
         ELSE x \o y

RECURSIVE ByteLength(_)
ByteLength(w) == IF w = <<>> THEN 0 ELSE w[1].n + ByteLength(Tail(w))

\* binary[i]
RECURSIVE ByteAt(_, _)
ByteAt(w, i) ==
  IF w = <<>> \/ i < 0 THEN Undefined
  ELSE IF i < w[1].n THEN w[1].b ELSE ByteAt(Tail(w), i - w[1].n)

\* binary.slice(from, to): both ends clamped to the array, NaN taken as 0
RECURSIVE SliceRuns(_, _, _)
SliceRuns(w, from, to) ==
  IF w = <<>> \/ to <= 0 THEN <<>>
  ELSE LET lo == IF from < 0 THEN 0 ELSE from
           hi == IF to < w[1].n THEN to ELSE w[1].n
       IN Cat(Run(w[1].b, IF hi > lo THEN hi - lo ELSE 0),
              SliceRuns(Tail(w), from - w[1].n, to - w[1].n))

SliceBytes(w, from, to) ==
  SliceRuns(w, IF from = NaN THEN 0 ELSE from, IF to = NaN THEN 0 ELSE to)

\* offset + n in JavaScript numbers
Plus(offset, n) == IF offset = NaN \/ n = Undefined THEN NaN ELSE offset + n

\* new Uint8Array([v]), setUint16(0, v), setUint32(0, v): the value modulo the width
U8(v) == Run(v % Uint8Size, 1)
U16(v) == Cat(U8(v \div Uint8Size), U8(v))
U32(v) == Cat(U16(v \div Uint16Size), U16(v))

\* view.getUint16(offset): the offset NaN is index 0; RangeError past the end
CanRead(w, offset, width) ==
  (IF offset = NaN THEN 0 ELSE offset) + width <= ByteLength(w)
Uint16At(w, offset) ==
  LET o == IF offset = NaN THEN 0 ELSE offset
  IN ByteAt(w, o) * Uint8Size + ByteAt(w, o + 1)
Uint32At(w, offset) == Uint16At(w, offset) * Uint16Size + Uint16At(w, offset + 2)

\* the bytes compressToken writes for the candidates from the i-th on
RECURSIVE CompressCandidates(_, _)
CompressCandidates(cs, i) ==
  IF i > Len(cs) THEN <<>>
  ELSE Cat(U16(ByteLength(cs[i].candidate)),
       Cat(cs[i].candidate,
       Cat(U8(ByteLength(cs[i].sdpMid)),
       Cat(cs[i].sdpMid,
       Cat(U16(cs[i].sdpMLineIndex), CompressCandidates(cs, i + 1))))))

\* compressToken, up to the base64 step: the byte array it builds
CompressToken_Binary(token) ==
  LET timestamp == IF token.timestamp = 0 THEN Now ELSE token.timestamp
  IN Cat(U8(1),
     Cat(U8(IF token.trickleIce THEN 1 ELSE 0),
     Cat(U32((timestamp \div Uint16Size) \div Uint16Size),
     Cat(U32(timestamp),
     Cat(U8(ByteLength(token.connectionId)),
     Cat(token.connectionId,
     Cat(U16(ByteLength(token.sdp)),
     Cat(token.sdp,
     Cat(U8(Len(token.iceCandidates)),
         CompressCandidates(token.iceCandidates, 1))))))))))

DecodeFailed == [ok |-> FALSE, list |-> <<>>]

\* the candidate loop of decompressToken: count candidates read from offset
RECURSIVE DecompressCandidates(_, _, _)
DecompressCandidates(w, offset, count) ==
  IF count = 0 THEN [ok |-> TRUE, list |-> <<>>]
  ELSE IF ~CanRead(w, offset, 2) THEN DecodeFailed
  ELSE
    LET candLen == Uint16At(w, offset)
        atCand == Plus(offset, 2)
        candidate == SliceBytes(w, atCand, Plus(atCand, candLen))
        atMidLen == Plus(atCand, candLen)
        midLen == IF atMidLen = NaN THEN Undefined ELSE ByteAt(w, atMidLen)
        atMid == Plus(atMidLen, 1)
        sdpMid == SliceBytes(w, atMid, Plus(atMid, midLen))
        atIndex == Plus(atMid, midLen)
    IN IF ~CanRead(w, atIndex, 2) THEN DecodeFailed
       ELSE LET rest == DecompressCandidates(w, Plus(atIndex, 2), count - 1)
            IN IF ~rest.ok THEN DecodeFailed
               ELSE [ok |-> TRUE,
                     list |-> <<[candidate |-> candidate, sdpMid |-> sdpMid,
                                 sdpMLineIndex |-> Uint16At(w, atIndex)]>>
                              \o rest.list]

\* decompressToken after the version byte: flags, timestamp, connection id,
\* SDP and candidates read in order; a RangeError of the DataView is the only
\* failure
DecompressFields(w) ==
  IF ~CanRead(w, 2, 8) THEN [out |-> "error", token |-> NoCodecToken]
  ELSE
    LET flags == ByteAt(w, 1)
        connIdLen == ByteAt(w, 10)
        atSdpLen == Plus(11, connIdLen)
    IN IF ~CanRead(w, atSdpLen, 2) THEN [out |-> "error", token |-> NoCodecToken]
       ELSE
         LET sdpLen == Uint16At(w, atSdpLen)
             atSdp == Plus(atSdpLen, 2)
             atCount == Plus(atSdp, sdpLen)
             count == IF atCount = NaN THEN Undefined ELSE ByteAt(w, atCount)
             cands == DecompressCandidates(w, Plus(atCount, 1),
                                           IF count = Undefined THEN 0 ELSE count)
         IN IF ~cands.ok THEN [out |-> "error", token |-> NoCodecToken]
            ELSE [out |-> "token",
                  token |->
                    [type |-> "offer",
                     sdp |-> SliceBytes(w, atSdp, Plus(atSdp, sdpLen)),
                     iceCandidates |-> cands.list,
                     timestamp |-> Uint32At(w, 2) * Uint16Size * Uint16Size
                                     + Uint32At(w, 6),
                     connectionId |-> SliceBytes(w, 11, Plus(11, connIdLen)),
                     trickleIce |-> flags % 2 = 1,
                     custom |-> {}]]

\* the C29 mutant: decompressToken without the test of the version byte
DecompressTokenAnyVersion(w) == DecompressFields(w)

\* decompressToken of the bytes w: the token, or BOOTSTRAP_PARSE_FAILED
DecompressToken(w) ==
  IF ByteAt(w, 0) # 1
    THEN [out |-> "error", token |-> NoCodecToken]
    ELSE DecompressFields(w)

\* SpecCodec: a token is compressed, its bytes are cut short or given another
\* version byte on the way, and decompressed.

Text(a, b, c) == Cat(Run(a, 1), Cat(Run(b, 1), Run(c, 1)))
Sdps == {Text(118, 61, 48), Run(2, Uint16Size - 1), Run(2, Uint16Size)}
ConnectionIds == {Run(99, 1), Run(99, Uint8Size - 1), Run(99, Uint8Size)}
ShortCandidate ==
  [candidate |-> Text(97, 61, 99), sdpMid |-> Run(48, 1), sdpMLineIndex |-> 0]
LongCandidate ==
  [candidate |-> Run(3, Uint16Size), sdpMid |-> <<>>, sdpMLineIndex |-> 1]
CandidateLists ==
  {<<>>, <<ShortCandidate>>, <<ShortCandidate, ShortCandidate>>,
   <<LongCandidate>>, <<ShortCandidate, LongCandidate>>}
CodecTokens ==
  [type : {"offer"}, sdp : Sdps, iceCandidates : CandidateLists,
   timestamp : {Now}, connectionId : ConnectionIds, trickleIce : BOOLEAN,
   custom : {{}, {"username"}}]

CodecUnchanged ==
  UNCHANGED <<sessVars, tpVars, call, mgrVars, wireVars, outVars, oob, entry,
              protoVars, config, timers>>

\* compressToken(token); the engine accepts the spread call (spreadOk) or, for
\* a byte array above its limit on call arguments, throws RangeError
CompressTokenCall(token, spreadOk) ==
  /\ wire.out = "none"
  /\ LET binary == CompressToken_Binary(token)
     IN /\ spreadOk \/ ByteLength(binary) > SpreadArgumentsFloor
        /\ wire' = IF spreadOk
                     THEN [out |-> "bytes", bytes |-> binary, cut |-> 0]
                     ELSE [NoBytes EXCEPT !.out = "error"]
  /\ codecToken' = token
  /\ decoded' = NotDecoded
  /\ CodecUnchanged

\* the last byte is lost on the way
Truncate ==
  /\ wire.out = "bytes"
  /\ wire.cut < MaxCut
  /\ wire.bytes # <<>>
  /\ wire' = [wire EXCEPT !.bytes = SliceBytes(@, 0, ByteLength(@) - 1),
                          !.cut = @ + 1]
  /\ decoded' = NotDecoded
  /\ UNCHANGED codecToken
  /\ CodecUnchanged

\* the bytes come from an encoder of another version
SetVersion(v) ==
  /\ wire.out = "bytes"
  /\ ByteAt(wire.bytes, 0) = 1
  /\ wire' = [wire EXCEPT !.bytes = Cat(U8(v), SliceBytes(@, 1, ByteLength(@)))]
  /\ decoded' = NotDecoded
  /\ UNCHANGED codecToken
  /\ CodecUnchanged

\* decompressToken(bytes)
DecompressTokenCall ==
  /\ wire.out = "bytes"
  /\ decoded' = DecompressToken(wire.bytes)
  /\ UNCHANGED <<codecToken, wire>>
  /\ CodecUnchanged

CodecNext ==
  \/ \E token \in CodecTokens, spreadOk \in BOOLEAN : CompressTokenCall(token, spreadOk)
  \/ Truncate
  \/ \E v \in {0, 2, Uint8Size - 1} : SetVersion(v)
  \/ DecompressTokenCall

SpecCodec == Init /\ [][CodecNext]_vars

----------------------------------------------------------------------------
(* SpecScan: QRBootstrap.scanQRCodeFromVideo called by the application,    *)
(* one call after the other; the camera check and scanner.start() settle,  *)
(* the timer fires and tokens are scanned in any order.  A scan that does  *)
(* not parse is logged and changes nothing.                                *)

ScanUnchanged ==
  UNCHANGED <<sessVars, tpVars, call, mgrVars, wireVars, outVars, oob, entry,
              protoVars, config, codecVars, wait>>

\* reject(error) or resolve(token) of the promise: only the first one counts
Settle(outcome) == IF scan.outcome = "pending" THEN outcome ELSE scan.outcome

\* clearTimeout(timeoutId)
ClearTimeout == IF scan.timer = "armed" THEN "cleared" ELSE scan.timer

\* scanQRCodeFromVideo(videoElement, timeoutMs), up to the first await of
\* createScanner: the timer is set and QrScanner.hasCamera() awaited.  A
\* scanner an earlier call left running keeps running.
ScanQRCodeFromVideo ==
  /\ scan.calls < MaxScans
  /\ scan.outcome # "pending"
  /\ scan.creating \in {"none", "done", "failed"}
  /\ scan' = [calls |-> scan.calls + 1, timer |-> "armed", creating |-> "hasCamera",
              scanner |-> "null", running |-> FALSE,
              orphans |-> scan.orphans + (IF scan.running THEN 1 ELSE 0),
              outcome |-> "pending"]
  /\ ScanUnchanged

\* hasCamera() settles: with a camera the scanner is constructed and
\* scanner.start() awaited; without, createScanner throws and the catch of
\* scanQRCodeFromVideo clears the timer and rejects
HasCameraSettles(hasCamera) ==
  /\ scan.creating = "hasCamera"
  /\ scan' = IF hasCamera
               THEN [scan EXCEPT !.creating = "start"]
               ELSE [scan EXCEPT !.creating = "failed",
                                 !.timer = ClearTimeout,
                                 !.outcome = Settle("BOOTSTRAP_PARSE_FAILED")]
  /\ ScanUnchanged

\* scanner.start() settles: on success createScanner returns the running
\* scanner and the then callback stores it in the scanner variable
StartSettles(ok) ==
  /\ scan.creating = "start"
  /\ scan' = IF ok
               THEN [scan EXCEPT !.creating = "done", !.scanner = "set",
                                 !.running = TRUE]
               ELSE [scan EXCEPT !.creating = "failed",
                                 !.timer = ClearTimeout,
                                 !.outcome = Settle("BOOTSTRAP_PARSE_FAILED")]
  /\ ScanUnchanged

\* cleanup(): stops and destroys the scanner the variable holds, if any
Cleanup(sc) ==
  IF sc.scanner = "set"
    THEN [sc EXCEPT !.scanner = "null", !.running = FALSE]
    ELSE sc

\* the timer fires: cleanup(), then reject with TIMEOUT
TimeoutFires ==
  /\ scan.timer = "armed"
  /\ scan' = [Cleanup(scan) EXCEPT !.timer = "fired", !.outcome = Settle("TIMEOUT")]
  /\ ScanUnchanged

\* the running scanner of this call reads a code that decompresses to a
\* token: clearTimeout, cleanup(), resolve(token)
TokenScanned ==
  /\ scan.running
  /\ scan' = [Cleanup(scan) EXCEPT !.timer = ClearTimeout, !.outcome = Settle("token")]
  /\ ScanUnchanged

\* a scanner an earlier call left running reads a token: the cleanup of its
\* own call stops it
OrphanScanned ==
  /\ scan.orphans > 0
  /\ scan' = [scan EXCEPT !.orphans = @ - 1]
  /\ ScanUnchanged

ScanNext ==
  \/ ScanQRCodeFromVideo
  \/ \E hasCamera \in BOOLEAN : HasCameraSettles(hasCamera)
  \/ \E ok \in BOOLEAN : StartSettles(ok)
  \/ TimeoutFires
  \/ TokenScanned
  \/ OrphanScanned

SpecScan == Init /\ [][ScanNext]_vars

----------------------------------------------------------------------------
(* SpecWait: the non-trickle calls of one session with waitForICEGathering *)
(* spelled out: the wait starts when setLocalDescription has resolved, the *)
(* transport reports the end of gathering or never does, the timer fires.  *)

WaitUnchanged ==
  UNCHANGED <<sessVars, tpVars, call, mgrVars, wireVars, outVars, oob, entry,
              protoVars, config, codecVars, scan>>

\* waitForICEGathering(pc, 5000), the executor of its promise: resolve at
\* once when gathering is complete, else set the timer and add the listener
WaitForICEGathering(p) ==
  /\ call[p].at = "waitForICEGathering"
  /\ wait[p].pc # call[p].pc
  /\ wait' = [wait EXCEPT ![p] =
       IF wait[p].complete = call[p].pc
         THEN [@ EXCEPT !.pc = call[p].pc, !.timer = "none", !.listener = FALSE,
                        !.resolves = 1]
         ELSE [@ EXCEPT !.pc = call[p].pc, !.timer = "armed", !.listener = TRUE,
                        !.resolves = 0]]
  /\ WaitUnchanged

\* the live peer connection's iceGatheringState becomes 'complete' and
\* icegatheringstatechange fires: checkState, if still listening, clears the
\* timer, removes itself and resolves
GatheringComplete(p) ==
  /\ peerConnection[p] # 0
  /\ connectionState[p] # "closed"
  /\ localDescription[p] # "none"
  /\ wait[p].complete # peerConnection[p]
  /\ wait' = [wait EXCEPT ![p] =
       IF wait[p].listener /\ wait[p].pc = peerConnection[p]
         THEN [@ EXCEPT !.complete = peerConnection[p],
                        !.timer = IF @ = "armed" THEN "cleared" ELSE @,
                        !.listener = FALSE,
                        !.resolves = @ + 1]
         ELSE [@ EXCEPT !.complete = peerConnection[p]]]
  /\ WaitUnchanged

\* GatherTimeout that removes the listener and does not resolve
GatherTimeoutWithoutResolve(p) ==
  /\ wait[p].timer = "armed"
  /\ wait' = [wait EXCEPT ![p].timer = "fired", ![p].listener = FALSE]
  /\ WaitUnchanged

\* the timer fires: the listener is removed and the promise resolved
GatherTimeout(p) ==
  /\ wait[p].timer = "armed"
  /\ wait' = [wait EXCEPT ![p].timer = "fired", ![p].listener = FALSE,
                          ![p].resolves = @ + 1]
  /\ WaitUnchanged

\* the wait of the call in flight has resolved
Resolved(p) == wait[p].pc = call[p].pc /\ wait[p].resolves > 0

\* candidates are discovered until gathering is complete
Gather(p) == wait[p].complete # peerConnection[p] /\ IceCandidate(p)

WaitNext ==
  \/ CreateBegin(Session, FALSE)
  \/ \E ok \in BOOLEAN : CreateOffered(Session, ok)
  \/ \E ok \in BOOLEAN : CreateLocalSet(Session, ok)
  \/ \E cands \in BOOLEAN : ConnectDirect(Session, [trickle |-> FALSE, cands |-> cands])
  \/ \E ok \in BOOLEAN : ConnectRemoteSet(Session, ok)
  \/ \E ok \in BOOLEAN : ConnectCandidatesAdded(Session, ok)
  \/ \E ok \in BOOLEAN : ConnectAnswered(Session, ok)
  \/ \E ok \in BOOLEAN : ConnectLocalSet(Session, ok)
  \/ WaitForICEGathering(Session)
  \/ GatheringComplete(Session)
  \/ GatherTimeout(Session)
  \/ Resolved(Session) /\ CreateGathered(Session)
  \/ Resolved(Session) /\ ConnectGathered(Session)
  \/ Gather(Session)
  \/ Close(Session)

\* the executor of the promise runs when waitForICEGathering is called, a set
\* timer fires, and a call whose wait has resolved resumes
SpecWait ==
  /\ Init /\ [][WaitNext]_vars
  /\ WF_vars(WaitForICEGathering(Session))
  /\ WF_vars(GatherTimeout(Session))
  /\ WF_vars(Resolved(Session) /\ CreateGathered(Session))
  /\ WF_vars(Resolved(Session) /\ ConnectGathered(Session))

----------------------------------------------------------------------------
(* Properties                                                              *)

\* C1: receiveAnswer called in any state other than AwaitingAnswer is rejected
\* with an error and leaves the state, the role and the remote description of
\* the session unchanged.
C1_ReceiveAnswerRejectedOutsideAwaitingAnswer ==
  [][\A p \in Peers :
       (/\ call[p].op = "none"
        /\ state[p] # "awaiting_answer"
        /\ (call'[p].op = "receive" \/ result'[p].op = "receive"))
       => (/\ result'[p].out = "rejected"
           /\ state'[p] = state[p]
           /\ role'[p] = role[p]
           /\ remoteDescription'[p] = remoteDescription[p])]_vars

\* C2: however often an answer envelope is delivered to a session, the session
\* calls setRemoteDescription for it at most once.
C2_AnswerEnvelopeAppliedAtMostOnce ==
  \A p \in Peers : sigApplied[p].srd <= 1

\* C3: an answer envelope received by a responder causes no call on its
\* transport.
C3_ResponderIgnoresAnswerEnvelope ==
  \A p \in Peers : role[p] = "answerer" => sigApplied[p].srd = 0

\* C4: a frame tagged as signaling goes to the relay handler and is never
\* surfaced (no MESSAGE_RECEIVED, not in the history); every other frame that
\* parses is routed to the message layer.
C4_FramesRoutedByTag ==
  \A p \in Peers :
    /\ \A i \in 1..Len(messageHistory[p]) : ~messageHistory[p][i].sig
    /\ routed[p].to # "none" =>
         IF routed[p].frame.kind = "obj" /\ routed[p].frame.sig
           THEN routed[p].to = "signaling"
           ELSE routed[p].frame.kind # "garbage" =>
                  routed[p].to = "application" /\ routed[p].layer

\* C5: a session whose trickle flag is off has sent no answer or ice-candidate
\* envelope on its channel and has applied no received signaling envelope to
\* its transport.
C5_NoRelayWithoutTrickle ==
  \A p \in Peers :
    ~trickleIceEnabled[p] =>
      /\ \A i \in 1..Len(sentLog[p]) : ~sentLog[p][i].sig
      /\ sigApplied[p].srd = 0
      /\ sigApplied[p].ice = 0

C7_ConnectingBeforeConnected ==
  [][(role[Initiator] = "offerer" /\ ~trickleIceEnabled[Initiator]) =>
       /\ (result'[Initiator].op = "receive" /\ result'[Initiator].out = "ok")
            => state'[Initiator] = "connecting"
       /\ (state'[Initiator] = "connected" /\ state[Initiator] # "connected")
            => state[Initiator] = "connecting"]_vars

\* C8: a createBootstrapToken that returns a token has moved the session to
\* AwaitingAnswer before returning, in both modes; one that fails returns no
\* token and leaves the session Failed.
C8_TokenReturnedInAwaitingAnswer ==
  \A p \in Peers :
    result[p].op = "create" =>
      \/ result[p].out = "token" /\ state[p] = "awaiting_answer"
      \/ result[p].out = "error" /\ state[p] = "failed"

\* C8 witness: a non-trickle call returns a token that embeds a candidate
C8_Witness ==
  /\ result[Session].op = "create"
  /\ result[Session].out = "token"
  /\ ~result[Session].trickle
  /\ result[Session].cands # <<>>
  /\ state[Session] = "awaiting_answer"

\* C9: once a session is Failed or Closed no step moves it to another state.
C9_FailedAndClosedAreTerminal ==
  [][\A p \in Peers :
       state[p] \in {"failed", "closed"} => state'[p] = state[p]]_vars

\* C10: every change of the session state follows an edge of the state
\* machine; in particular AwaitingAnswer is never followed by Connected.
C10_StateChangesFollowEdges ==
  [][\A p \in Peers :
       state'[p] # state[p] =>
         \/ <<state[p], state'[p]>> \in
              {<<"idle", "creating_offer">>,
               <<"creating_offer", "awaiting_answer">>,
               <<"awaiting_answer", "connecting">>,
               <<"idle", "connecting">>,
               <<"connecting", "connected">>,
               <<"connected", "disconnected">>,
               <<"disconnected", "closed">>}
         \/ state[p] \notin {"failed", "closed"} /\ state'[p] = "failed"
         \/ state[p] \notin {"failed", "closed"} /\ state'[p] = "closed"]_vars


\* C11: joinQRConnection with a valid, fresh, non-trickle token, when every
\* transport operation succeeds, hands its caller the answer with at most 3
\* candidates, the first gathered, marked non-trickle, and raises no error.
C11_JoinReturnsReverseToken ==
  \A p \in Peers :
    (entry[p] = "qr" /\ result[p].op = "connect" /\ result[p].out = "answer") =>
      /\ JoinQRConnectionReturn(result[p]).out = "answer"
      /\ ~JoinQRConnectionReturn(result[p]).trickle
      /\ Len(JoinQRConnectionReturn(result[p]).cands) <= AnswerCandidateCap
      /\ JoinQRConnectionReturn(result[p]).cands =
           Slice(iceCandidatesBuffer[p], AnswerCandidateCap)


\* C12: a connectWithBootstrapToken with a trickle token that does not fail
\* returns null (and only such a call does), and when the channel then opens
\* on the responder, which holds its local answer, the responder sends exactly
\* one answer envelope on it.
C12_TrickleResponderSendsAnswerOnOpen ==
  [][\A p \in Peers :
       /\ (result'[p].op = "connect" /\ result'[p].out # "error") =>
            (trickleIceEnabled'[p] <=> result'[p].out = "null")
       /\ (/\ role[p] = "answerer" /\ trickleIceEnabled[p]
           /\ localDescription[p] = "answer"
           /\ dataChannel[p] # "open" /\ dataChannel'[p] = "open") =>
            /\ Len(sentLog'[p]) > Len(sentLog[p])
            /\ Cardinality({i \in 1..Len(sentLog'[p]) :
                              sentLog'[p][i] = AnswerEnvelope}) = 1]_vars

\* C12 witness: the trickle responder's call has returned, its channel has
\* opened and the answer envelope is on it
C12_Witness ==
  /\ role[Session] = "answerer" /\ trickleIceEnabled[Session]
  /\ call[Session].op = "none"
  /\ localDescription[Session] = "answer"
  /\ dataChannel[Session] = "open"
  /\ \E i \in 1..Len(sentLog[Session]) : sentLog[Session][i] = AnswerEnvelope

\* C13: in trickle mode, once the initiator's channel is open every candidate
\* its peer connection has discovered has been sent as an ice-candidate
\* envelope: those discovered before the open on the open, the others when
\* discovered.
C13_InitiatorForwardsEveryCandidate ==
  \A p \in Peers :
    (role[p] = "offerer" /\ trickleIceEnabled[p] /\ dataChannel[p] = "open") =>
      \A i \in 1..Len(iceCandidatesBuffer[p]) :
        CandidateGen(iceCandidatesBuffer[p][i]) = peerConnection[p] =>
          \E j \in 1..Len(sentLog[p]) :
            sentLog[p][j] = IceEnvelope(iceCandidatesBuffer[p][i])


\* C14: a join through joinQRConnection or joinRemoteConnection with a token
\* that is structurally invalid or older than the validity window is rejected
\* with an error before a transport is created, and leaves the state and the
\* role of the session unchanged.
C14_BadTokenRejected ==
  [][\A p \in Peers, t \in JoinTokens :
       (/\ ~ValidateToken(t) \/ IsTokenExpired(t)
        /\ \/ JoinQRConnection(p, t)
           \/ \E n \in {MinUsernameLength - 1, MinUsernameLength} :
                JoinRemoteConnection(p, n, [status |-> 200, hasToken |-> TRUE,
                                            token |-> t]))
       => (/\ result'[p].out \in {"CONNECTION_FAILED", "REMOTE_SERVICE_ERROR"}
           /\ state'[p] = state[p]
           /\ role'[p] = role[p]
           /\ peerConnection'[p] = peerConnection[p]
           /\ gen'[p] = gen[p])]_vars


\* C15: the lookup of a well-formed username for which the service has no
\* token (404, or a body without a token) returns "not found"; and
\* joinRemoteConnection on a lookup that returns "not found" raises
\* REMOTE_SERVICE_ERROR without starting a session: no peer connection is
\* created and the state and role are unchanged.
C15_NotFoundRaisesRemoteServiceError ==
  [][\A p \in Peers :
       (gen'[p] # gen[p] \/ result'[p].op = "joinRemote") =>
         \A n \in {MinUsernameLength - 1, MinUsernameLength}, a \in LookupAnswers :
           /\ (/\ n >= MinUsernameLength
               /\ a.status = 404 \/ (a.status = 200 /\ ~a.hasToken))
                => LookupToken(n, a).out = "not found"
           /\ (LookupToken(n, a).out = "not found" /\ JoinRemoteConnection(p, n, a))
                => /\ result'[p].op = "joinRemote"
                   /\ result'[p].out = "REMOTE_SERVICE_ERROR"
                   /\ state'[p] = state[p]
                   /\ role'[p] = role[p]
                   /\ peerConnection'[p] = peerConnection[p]
                   /\ gen'[p] = gen[p]
                   /\ call'[p] = call[p]]_vars

\* C15 witness: joinRemoteConnection has just raised for a lookup that found
\* nothing, on an orchestrator whose session is connected
C15_Witness ==
  /\ result[Session].op = "joinRemote"
  /\ result[Session].out = "REMOTE_SERVICE_ERROR"
  /\ result[Session].why = "No connection found for username"
  /\ state[Session] = "connected"

\* C16: the message history never holds more messages than the configured
\* cap, for every cap >= 0, after any sequence of processMessage and
\* setMaxHistorySize calls.
C16_HistoryWithinCap ==
  \A p \in Peers : Len(messageHistory[p]) <= maxHistorySize[p]

\* C17: processMessage of a valid message on a protocol with no handler for
\* its type and no wildcard handler still appends the message to the history
\* and completes without error.
C17_NoHandlerStillRecorded ==
  \A p \in Peers :
    (/\ dispatched[p].out # "none"
     /\ ValidMessage(dispatched[p].msg)
     /\ AllHandlers(handlers[p]) = <<>>)
    => /\ dispatched[p].out = "ok"
       /\ messageHistory[p] # <<>>
       /\ messageHistory[p][Len(messageHistory[p])] = dispatched[p].msg

C17_Witness ==
  /\ dispatched[Session].out = "ok"
  /\ dispatched[Session].msg = AppMessage(2)
  /\ handlers[Session] = NoHandlers
  /\ messageHistory[Session] = <<AppMessage(1), AppMessage(2)>>

\* C18: under retryQueuedMessages with a sendFn that does not touch the
\* queue, a message whose send fails every time is attempted exactly
\* maxRetries times, its retry count rising by one per failure, and is then
\* removed and never attempted again; a message whose send succeeds is removed
\* and not queued again.
C18_RetryBounded ==
  \A p \in Peers : \A id \in 1..MaxQueued :
    LET a == attempts[p][id]
        q == messageQueue[p]
        entries == {i \in 1..Len(q) : q[i].message = AppMessage(id)}
    IN /\ a.failed <= ProtocolMaxRetries
       /\ a.sent <= 1
       /\ Cardinality(entries) <= 1
       /\ \A i \in entries : q[i].retries = a.failed /\ a.sent = 0
       /\ (id <= msgCount[p] /\ entries = {} /\ a.sent = 0)
            => a.failed = ProtocolMaxRetries
       /\ id > msgCount[p] => entries = {} /\ a.failed = 0 /\ a.sent = 0

C18_Witness ==
  /\ msgCount[Session] >= 2
  /\ attempts[Session][1] = [failed |-> ProtocolMaxRetries, sent |-> 0]
  /\ attempts[Session][2] = [failed |-> 1, sent |-> 1]
  /\ messageQueue[Session] = <<>>

\* C19: when processMessage fans a valid message out, a handler that fails,
\* by throwing or by returning a promise that rejects, does not keep any other
\* handler of the type or any wildcard handler from being invoked.
C19_EveryHandlerInvoked ==
  \A p \in Peers :
    (dispatched[p].out # "none" /\ ValidMessage(dispatched[p].msg))
    => dispatched[p].invoked = 1..Len(AllHandlers(handlers[p]))

\* C20: ConnectionManager.sendMessage never loses a message and never both
\* sends and queues it: called on a session that is not ready it queues the
\* message exactly once and throws; called on a ready session whose send fails
\* it queues the message exactly once and throws; when the send succeeds the
\* message is on the wire, is not queued, and the call resolves.
C20_SentOrQueuedOnce ==
  [][\A p \in Peers :
       result'[p].op = "send" =>
         LET m == AppMessage(10 * p + msgCount[p] + 1)
             sent == sentLog'[p] = Append(sentLog[p], m)
             notSent == sentLog'[p] = sentLog[p]
             queued == messageQueue'[p] =
                         Append(messageQueue[p], [message |-> m, retries |-> 0])
             notQueued == messageQueue'[p] = messageQueue[p]
         IN /\ msgCount'[p] = msgCount[p] + 1
            /\ \/ result'[p].out = "ok" /\ sent /\ notQueued
               \/ result'[p].out = "error" /\ queued /\ notSent
            /\ ~IsReady(p) => result'[p].out = "error"
            /\ result'[p].out = "ok" => IsReady(p)]_vars

C20_Witness ==
  /\ result[Initiator].op = "send"
  /\ result[Initiator].out = "error"
  /\ result[Initiator].why = "Failed to send message"
  /\ messageQueue[Initiator] =
       <<[message |-> AppMessage(10 * Initiator + 2), retries |-> 0]>>
  /\ sentLog[Initiator] # <<>>
  /\ sentLog[Initiator][Len(sentLog[Initiator])] = AppMessage(10 * Initiator + 1)

\* C21: createMessage raises a validation error and returns no message
\* whenever the type has a registered schema and the payload, whatever kind of
\* value it is, lacks a required field or fails the schema's predicate; the
\* required fields are checked before the predicate; a type without a schema
\* is never rejected.
C21_CreateMessageValidates ==
  \A p \in Peers :
    created[p].out # "none" =>
      LET schema == schemas[p][created[p].type]
          payload == created[p].payload
          lacks == \E f \in schema.requiredFields :
                     payload.kind # "object" \/ f \notin payload.fields
          refused == schema.validate = "isGood" /\ ~payload.good
      IN /\ ~schema.set => created[p].out = "message"
         /\ (schema.set /\ (lacks \/ refused)) => created[p].out = "error"
         /\ (schema.set /\ lacks) => created[p].why = "Missing required field"
         /\ (schema.set /\ ~lacks /\ ~refused) => created[p].out = "message"

\* C22: close is idempotent: a close() called right after a close() leaves the
\* session, its data channel, transport, buffers and listeners and the
\* orchestrator's message layer exactly as the first call left them, emits no
\* event and raises no error.
C22_CloseIdempotent ==
  [][\A p \in Peers :
       (result[p].op = "close" /\ result'[p].op = "close")
         => /\ UNCHANGED <<sessVars, tpVars, call, mgrVars, wireVars>>
            /\ result'[p].out = "ok"
            /\ result'[p].why = "none"]_vars

C22_Witness ==
  /\ result[Session] = CloseReturn("none")
  /\ state[Session] = "closed"
  /\ pendingIceCandidates[Session] # <<>>

\* C23: after close(), whatever state the session was in, the data channel
\* and the transport are closed, the gathered-candidate buffer and the
\* pending-candidate buffer are empty and no event listener is attached.
C23_ClosedSessionIsEmpty ==
  \A p \in Peers :
    result[p].op = "close"
      => /\ dataChannel[p] = "null"
         /\ peerConnection[p] = 0
         /\ iceCandidatesBuffer[p] = <<>>
         /\ pendingIceCandidates[p] = <<>>
         /\ ~eventListeners[p]

\* C24: with auto-retry enabled the orchestrator starts at most maxRetries
\* retry attempts in response to Failed events, for every configured
\* maxRetries >= 0; with auto-retry disabled it starts none.
C24_RetriesWithinConfiguredMax ==
  \A p \in Peers :
    /\ retryCount[p] <= config[p].maxRetries
    /\ ~config[p].autoRetry => retryCount[p] = 0

\* C25: the role of a session is assigned once: after it has been set to
\* offerer or answerer no operation on the session changes it.
C25_RoleAssignedOnce ==
  [][\A p \in Peers : role[p] # "null" => role'[p] = role[p]]_vars

\* C26: receiveAnswer called on a session that is not the offerer (answerer,
\* or no role yet) raises an error and leaves the state, the role and the
\* transport of the session unchanged.
C26_ReceiveAnswerNeedsOfferer ==
  [][\A p \in Peers :
       (/\ role[p] # "offerer"
        /\ call[p].op = "none"
        /\ (call'[p].op = "receive" \/ result'[p].op = "receive"))
       => /\ result'[p].op = "receive"
          /\ result'[p].out = "rejected"
          /\ call'[p] = call[p]
          /\ state'[p] = state[p]
          /\ role'[p] = role[p]
          /\ peerConnection'[p] = peerConnection[p]
          /\ dataChannel'[p] = dataChannel[p]
          /\ UNCHANGED tpVars]_vars

C26_Witness ==
  /\ result[Session].op = "receive"
  /\ result[Session].out = "rejected"
  /\ role[Session] = "answerer"
  /\ peerConnection[Session] # 0
  /\ state[Session] = "connected"

\* C27: compressToken and decompressToken round-trip: every valid token whose
\* fields fit their length prefixes comes back field for field (offer type and
\* SDP, candidates, timestamp, connection id, trickle flag, custom metadata
\* fields), tokens without candidates and tokens at the maximum length of a
\* field included.
C27_CodecRoundTrip ==
  (/\ decoded.out # "none"
   /\ wire.bytes = CompressToken_Binary(codecToken)
   /\ ByteLength(codecToken.sdp) < Uint16Size
   /\ ByteLength(codecToken.connectionId) < Uint8Size
   /\ \A i \in 1..Len(codecToken.iceCandidates) :
        ByteLength(codecToken.iceCandidates[i].candidate) < Uint16Size)
  => decoded = [out |-> "token", token |-> codecToken]

\* C28: compressToken rejects, without producing bytes, every token whose SDP
\* or one of whose candidate strings is longer than 65535 bytes.
C28_EncodeRejectsOversize ==
  (\/ ByteLength(codecToken.sdp) >= Uint16Size
   \/ \E i \in 1..Len(codecToken.iceCandidates) :
        ByteLength(codecToken.iceCandidates[i].candidate) >= Uint16Size)
  => wire.out # "bytes"

\* C29: decompressToken rejects every byte sequence whose version byte is not
\* 0x01, whatever the other bytes are, and returns no token.
C29_UnknownVersionRejected ==
  (decoded.out # "none" /\ ByteAt(wire.bytes, 0) # 1) => decoded.out = "error"

C29_Witness ==
  /\ decoded.out = "error"
  /\ ByteAt(wire.bytes, 0) = 2
  /\ wire.cut = 0
  /\ SliceBytes(wire.bytes, 1, ByteLength(wire.bytes))
       = SliceBytes(CompressToken_Binary(codecToken), 1, ByteLength(wire.bytes))
  /\ codecToken.iceCandidates = <<ShortCandidate>>

\* C30: decompressToken returns no token for a byte sequence that is shorter
\* than the lengths it declares: bytes cut off the end of an encoded token are
\* never made up for by a shortened field or a defaulted candidate count.
C30_TruncatedRejected ==
  (decoded.out # "none" /\ wire.cut > 0) => decoded.out = "error"

\* C31: while the session holds a transport, a connection-state event of the
\* transport sets the session state: connected to Connected, disconnected to
\* Disconnected, closed to Closed, failed to Failed, and the failed event also
\* emits an error event; the step creates no new transport and starts no call
\* on the session.
C31_TransportStateMapsToSessionState ==
  [][\A p \in Peers :
       (/\ peerConnection[p] # 0
        /\ peerConnection'[p] = peerConnection[p]
        /\ connectionState'[p] # connectionState[p])
       => /\ connectionState'[p] = "connected" => state'[p] = "connected"
          /\ connectionState'[p] = "disconnected" => state'[p] = "disconnected"
          /\ connectionState'[p] = "closed" => state'[p] = "closed"
          /\ connectionState'[p] = "failed" =>
               /\ state'[p] = "failed"
               /\ \E i \in 1..Len(emitted'[p].signals) :
                    emitted'[p].signals[i] = "ERROR"
          /\ gen'[p] = gen[p]
          /\ call'[p] = call[p]
          /\ localDescription'[p] = localDescription[p]
          /\ remoteDescription'[p] = remoteDescription[p]]_vars

\* C31 witness: the transport of a connected session has just reported failed
C31_Witness ==
  /\ emitted[Session] = [event |-> "failed", signals |-> <<"STATE_CHANGE", "ERROR">>]
  /\ state[Session] = "failed"
  /\ connectionState[Session] = "failed"
  /\ dataChannel[Session] = "open"
  /\ retryCount[Session] = 1

\* C32: when the data channel opens on a trickle responder that holds its
\* answer, the responder sends the answer envelope, then one ice-candidate
\* envelope per pending candidate in discovery order, and the pending buffer
\* is empty afterwards; and whenever its channel is open, every candidate its
\* transport has discovered has been sent exactly once and no ice-candidate
\* envelope is on the channel before the answer envelope.
C32_ResponderFlushInOrder ==
  [][\A p \in Peers :
       (/\ role'[p] = "answerer" /\ trickleIceEnabled'[p]
        /\ peerConnection'[p] # 0
        /\ localDescription'[p] = "answer"
        /\ dataChannel'[p] = "open")
       => /\ dataChannel[p] # "open" =>
               /\ SelectSeq(sentLog'[p], LAMBDA f : f.sig) =
                    SelectSeq(sentLog[p], LAMBDA f : f.sig)
                      \o <<AnswerEnvelope>>
                      \o [i \in 1..Len(pendingIceCandidates[p]) |->
                            IceEnvelope(pendingIceCandidates[p][i])]
               /\ pendingIceCandidates'[p] = <<>>
          /\ \A i \in 1..Len(iceCandidatesBuffer'[p]) :
               Cardinality({j \in 1..Len(sentLog'[p]) :
                              sentLog'[p][j] = IceEnvelope(iceCandidatesBuffer'[p][i])})
                 = 1
          /\ \A j \in 1..Len(sentLog'[p]) :
               sentLog'[p][j].type = "ice-candidate" =>
                 \E k \in 1..(j - 1) : sentLog'[p][k] = AnswerEnvelope]_vars

\* C33: a message that fails validation is rejected alone.  processMessage of
\* it raises an error, appends nothing to the history and invokes no handler;
\* when it arrives on the channel the history is unchanged as well; either
\* way the retry queue, the retry count and the session are left as they
\* were.  A send whose payload fails validation raises an error, enqueues
\* nothing and puts nothing on the channel.
C33_ValidationFailureRejectsOneMessage ==
  [][\A p \in Peers :
       /\ (dispatched'[p] # dispatched[p] /\ ~ValidMessage(dispatched'[p].msg))
            => /\ dispatched'[p].out = "error"
               /\ dispatched'[p].invoked = {}
               /\ messageHistory'[p] = messageHistory[p]
               /\ messageQueue'[p] = messageQueue[p]
               /\ retryCount'[p] = retryCount[p]
               /\ UNCHANGED <<sessVars, tpVars, call, wireVars>>
       /\ (/\ routed'[p] # routed[p]
           /\ routed'[p].to = "application"
           /\ ~ValidMessage(routed'[p].frame))
            => /\ messageHistory'[p] = messageHistory[p]
               /\ messageQueue'[p] = messageQueue[p]
               /\ retryCount'[p] = retryCount[p]
               /\ UNCHANGED <<sessVars, tpVars, call, wireVars>>
       /\ (/\ result'[p] # result[p]
           /\ result'[p].op = "send"
           /\ result'[p].why = "Missing required field")
            => /\ result'[p].out = "error"
               /\ messageQueue'[p] = messageQueue[p]
               /\ sentLog'[p] = sentLog[p]
               /\ messageHistory'[p] = messageHistory[p]
               /\ UNCHANGED <<sessVars, tpVars, call>>]_vars

\* C33 witness: on a ready session with a handler registered, a message in
\* the history and a message in the retry queue, an invalid message has just
\* arrived on the channel
C33_Witness ==
  /\ IsReady(Session)
  /\ routed[Session] = [frame |-> BadMessage, to |-> "application", layer |-> TRUE]
  /\ handlers[Session].specific # <<>>
  /\ messageHistory[Session] # <<>>
  /\ messageQueue[Session] # <<>>
  /\ dispatched[Session].out = "error"

\* C34: once scanQRCodeFromVideo has failed with Timeout no scanner is
\* running, whether the timer fired before or after the scanner was created;
\* once it has resolved with a token the timer has been cleared and the
\* scanner stopped.
C34_NoScannerLeftRunning ==
  /\ scan.outcome = "TIMEOUT" => ~scan.running /\ scan.orphans = 0
  /\ scan.outcome = "token" =>
       scan.timer = "cleared" /\ ~scan.running /\ scan.orphans = 0

\* C35: a non-trickle createBootstrapToken or connectWithBootstrapToken whose
\* transport calls have succeeded, and which therefore waits for candidate
\* gathering, returns its token or answer, also when gathering never reports
\* completion; and the wait is resolved exactly once, by the end of gathering
\* or by the timer, never by both.
C35_GatheringWaitBounded ==
  /\ \A p \in Peers :
       call[p].at = "waitForICEGathering" ~> result[p].out \in {"token", "answer"}
  /\ [](\A p \in Peers :
         /\ wait[p].resolves <= 1
         /\ result[p].out \in {"token", "answer"} /\ ~result[p].trickle
              => wait[p].resolves = 1)

\* C35 witness: a token has been returned after the timer ended the wait on
\* a peer connection whose gathering is not complete
C35_Witness ==
  /\ result[Session].out = "token"
  /\ wait[Session].timer = "fired"
  /\ wait[Session].resolves = 1
  /\ wait[Session].complete # peerConnection[Session]
  /\ peerConnection[Session] # 0

\* C36: in the orchestrator, whose queue is retried on data-channel open with
\* sendMessage as the send function, a message has at most one entry in the
\* retry queue at any time, so the queue is never longer than the number of
\* messages the application has asked to send.
C36_OneQueueEntryPerMessage ==
  \A p \in Peers :
    /\ \A i, j \in 1..Len(messageQueue[p]) :
         messageQueue[p][i].message = messageQueue[p][j].message => i = j
    /\ Len(messageQueue[p]) <= msgCount[p]

\* C37: a message the orchestrator has queued is eventually sent once the
\* session is ready, whether the data channel's open event or the transport's
\* "connected" event arrived first.
C37_QueuedMessagesEventuallySent ==
  \A p \in Peers : \A k \in 1..MaxMsgs :
    (/\ IsReady(p)
     /\ dataChannel[p] = "open"
     /\ \E i \in 1..Len(messageQueue[p]) :
          messageQueue[p][i].message = AppMessage(10 * p + k))
      ~> (\E i \in 1..Len(sentLog[p]) : sentLog[p][i] = AppMessage(10 * p + k))

\* C38: the candidates embedded in a non-trickle token that createBootstrapToken
\* returns are candidates of the transport created in that same call; a
\* candidate discovered by the transport of an earlier call never appears.
C38_TokenCandidatesOfThisCall ==
  \A p \in Peers :
    (result[p].op = "create" /\ result[p].out = "token" /\ ~result[p].trickle) =>
      \A i \in 1..Len(result[p].cands) : CandidateGen(result[p].cands[i]) = gen[p]

\* C39: the answer of a responder that joined with a non-trickle token is never
\* discarded: joinQRConnection and joinRemoteConnection both hand the answer
\* that connectWithBootstrapToken returned to their caller.
C39_AnswerReachesCaller ==
  \A p \in Peers :
    (result[p].op = "connect" /\ result[p].out = "answer") =>
      /\ entry[p] = "qr" =>
           /\ JoinQRConnectionReturn(result[p]).out = "answer"
           /\ JoinQRConnectionReturn(result[p]).cands = result[p].cands
      /\ entry[p] = "remote" =>
           /\ JoinRemoteConnectionReturn(result[p]).out = "answer"
           /\ JoinRemoteConnectionReturn(result[p]).cands = result[p].cands

\* C40: a processed message invokes each handler registration that applies to
\* it (registered for its type, or for '*') exactly once, also when the type of
\* the message is the literal '*'; stated for handlers that do not throw
\* synchronously.
C40_EachRegistrationInvokedOnce ==
  \A p \in Peers :
    LET hs == handlers[p]
        m == dispatched[p].msg
        all == HandlersOf(hs, m)
        applies == {[kind |-> "wildcard", index |-> i] : i \in 1..Len(hs.wildcard)}
                     \cup (IF m.type = "*" THEN {}
                           ELSE {[kind |-> "specific", index |-> i] :
                                   i \in 1..Len(hs.specific)})
    IN (/\ dispatched[p].out # "none"
        /\ ValidMessage(m)
        /\ \A i \in 1..Len(all) : all[i] # "throws")
       => \A reg \in applies :
            Cardinality({i \in dispatched[p].invoked : Registration(hs, m, i) = reg}) = 1

====
